---- MODULE Spec2Model ----
(***************************************************************************)
(* A model of the shared-everything linker of wit-component                *)
(* (crates/wit-component/src/linking.rs).                                  *)
(*                                                                         *)
(* Spec        the Linker builder (library, stub_missing_functions) and    *)
(*             Linker::encode, one action per stage of a pass; a restart   *)
(*             (`return self.encode()`) starts the next pass.              *)
(* TopoSpec    topo_sort applied to every transitively closed dependency   *)
(*             map over TopoCount indices, under every iteration order of  *)
(*             its sets.                                                   *)
(*                                                                         *)
(* Library indices are 1-based here (Rust: 0-based).  Option<T> is a       *)
(* sequence of length 0 (None) or 1 (Some).  Adapters take no part in any  *)
(* stage modelled here and are left out.  The component encoder is an      *)
(* external collaborator: "component" means that encode handed valid       *)
(* modules to it.                                                          *)
(***************************************************************************)
EXTENDS Integers, Sequences, FiniteSets, TLC

VARIABLES
    libraries,               \* Linker.libraries: Seq of [name, module, dl_openable]
    stub_missing_functions,  \* Linker.stub_missing_functions
    pc,                      \* position inside Linker / encode
    result,                  \* what encode returned ("none" while running)
    input,                   \* the library list encode was first called with
    restarts,                \* kind of every restart so far ("stub" / "prune")
    function_exporters,      \* resolve_symbols' name -> ExportKey map of this pass
    resolved,                \* resolve_symbols' output of this pass
    missing,
    duplicates,
    cabi_realloc_exporter,   \* Option<library name>
    dependencies,            \* find_dependencies' output of this pass
    topo_sorted,             \* topo_sort's output of the final pass
    function_exports,        \* env_function_exports' output of the final pass
    layout,                  \* make_env_module's output of the final pass
    init_module,             \* make_init_module's output of the final pass
    arguments                \* the LibraryInfo arguments of every encoder.library
                             \* call of the final pass, in the order of the calls

vars == <<libraries, stub_missing_functions, pc, result, input, restarts,
          function_exporters, resolved, missing, duplicates,
          cabi_realloc_exporter, dependencies, topo_sorted, function_exports,
          layout, init_module, arguments>>

(***************************************************************************)
(* Bounds                                                                  *)
(***************************************************************************)
\* The number of Linker::library calls explored.
MaxLibs == 3
\* The depth of the recursion of Linker::encode explored (the recursion has
\* no bound of its own in the code).
MaxRestarts == 4
\* The number of libraries of the dependency maps of TopoSpec.
TopoCount == 3

(***************************************************************************)
(* Program constants                                                       *)
(***************************************************************************)
PAGE_SIZE_BYTES == 65536
STACK_SIZE_BYTES == 16 * PAGE_SIZE_BYTES
HEAP_ALIGNMENT_BYTES == 16
WASM_SYM_BINDING_WEAK == 1
I32_MAX == 2147483647

(***************************************************************************)
(* Generic helpers                                                         *)
(***************************************************************************)
SeqToSet(s) == {s[i] : i \in 1..Len(s)}

RECURSIVE Flatten(_)
Flatten(ss) == IF Len(ss) = 0 THEN <<>> ELSE Head(ss) \o Flatten(Tail(ss))

MapSeq(Op(_), s) == [i \in 1..Len(s) |-> Op(s[i])]

NoDuplicates(s) == \A i, j \in 1..Len(s) : s[i] = s[j] => i = j

None == <<>>
Some(v) == <<v>>

(***************************************************************************)
(* metadata::{Type, ExportKey, Export}                                     *)
(***************************************************************************)
FunctionType(p, r) ==
    [kind |-> "Function", parameters |-> p, results |-> r, mutable |-> FALSE]

GlobalType(vt, mut) ==
    [kind |-> "Global", parameters |-> <<vt>>, results |-> <<>>, mutable |-> mut]

IsFunction(ty) == ty.kind = "Function"

ExportKey(n, ty) == [name |-> n, ty |-> ty]

Export(k, f) == [key |-> k, flags |-> f]

IsWeak(flags) == (flags \div WASM_SYM_BINDING_WEAK) % 2 = 1

F0 == FunctionType(<<>>, <<>>)
F1 == FunctionType(<<"I32">>, <<"I32">>)
ReallocType == FunctionType(<<"I32", "I32", "I32", "I32">>, <<"I32">>)
OffsetType == GlobalType("I32", FALSE)

(***************************************************************************)
(* Library modules.  Metadata::try_new (metadata.rs) parses a module's     *)
(* custom sections; a module is given here by what it parses to.           *)
(***************************************************************************)
MemInfo(ms, ma, ts, ta) ==
    [memory_size |-> ms, memory_alignment |-> ma,
     table_size |-> ts, table_alignment |-> ta]

EnvImport(n, ty, f) == [name |-> n, ty |-> ty, flags |-> f]

\* A raw import: one from a module other than env, GOT.mem and GOT.func.
Import(m, n, ty) == [module |-> m, name |-> n, ty |-> ty]

\* A module without raw imports and without the conventional initializer
\* functions; WithImports and WithInitializers add them.
Module(exports, env, mem, table, needed, component_exports, mem_info) ==
    [exports |-> exports,
     env_imports |-> env,
     memory_address_imports |-> mem,
     table_address_imports |-> table,
     needed_libs |-> needed,
     has_component_exports |-> component_exports,
     mem_info |-> mem_info,
     imports |-> <<>>,
     has_data_relocs |-> FALSE,
     has_ctors |-> FALSE,
     has_set_libraries |-> FALSE]

WithImports(module, imports) == [module EXCEPT !.imports = imports]

\* The module also exports __wasm_apply_data_relocs, __wasm_call_ctors and
\* __wasm_set_libraries as the three flags say.
WithInitializers(module, relocs, ctors, set_libraries) ==
    [module EXCEPT !.has_data_relocs = relocs, !.has_ctors = ctors,
                   !.has_set_libraries = set_libraries]

Library(n, m, d) == [name |-> n, module |-> m, dl_openable |-> d]

\* The arguments Linker::library is called with.
LibraryCalls ==
    { \* a: component exports, calls f, provides g (cycle partner of b)
      Library("a", Module(<<Export(ExportKey("g", F1), 0)>>,
                          <<EnvImport("f", F1, 0)>>, <<>>, <<>>, <<>>, TRUE,
                          MemInfo(64, 0, 0, 0)), FALSE),
      \* b: component exports, provides f, calls g
      Library("b", Module(<<Export(ExportKey("f", F1), 0)>>,
                          <<EnvImport("g", F1, 0)>>, <<>>, <<>>, <<>>, TRUE,
                          MemInfo(24, 3, 2, 1)), FALSE),
      \* b: provides f, needs c
      Library("b", Module(<<Export(ExportKey("f", F1), 0)>>,
                          <<>>, <<>>, <<>>, <<"c">>, FALSE,
                          MemInfo(10, 2, 1, 0)), FALSE),
      \* c: provides f under another signature, and the data symbol x
      Library("c", Module(<<Export(ExportKey("f", F0), 0),
                            Export(ExportKey("x", OffsetType), 0)>>,
                          <<>>, <<>>, <<>>, <<>>, FALSE,
                          MemInfo(100, 4, 3, 2)), FALSE),
      \* c: provides f (a second exporter of the key b exports) and calls it
      \* through env
      Library("c", Module(<<Export(ExportKey("f", F1), 0)>>,
                          <<EnvImport("f", F1, 0)>>, <<>>, <<>>, <<>>, FALSE,
                          MemInfo(8, 0, 0, 0)), FALSE),
      \* a: component exports, takes the addresses of f (GOT.func) and x (GOT.mem),
      \* needs c
      Library("a", Module(<<>>, <<>>, <<"x">>, <<"f">>, <<"c">>, TRUE,
                          MemInfo(16, 1, 1, 0)), FALSE),
      \* a: component exports, weak call of opt
      Library("a", Module(<<>>, <<EnvImport("opt", F1, WASM_SYM_BINDING_WEAK)>>,
                          <<>>, <<>>, <<>>, TRUE,
                          MemInfo(32, 0, 0, 0)), FALSE),
      \* b: dlopen-able, provides h and the data symbol e, weak call of opt,
      \* has __wasm_set_libraries
      Library("b", WithInitializers(
                       Module(<<Export(ExportKey("h", F0), 0),
                                Export(ExportKey("e", OffsetType), 0)>>,
                              <<EnvImport("opt", F1, WASM_SYM_BINDING_WEAK)>>,
                              <<>>, <<>>, <<>>, FALSE,
                              MemInfo(4, 0, 1, 0)),
                       FALSE, FALSE, TRUE), TRUE),
      \* a: component exports, takes the addresses of bar and h (GOT.func)
      Library("a", Module(<<>>, <<>>, <<>>, <<"bar", "h">>, <<>>, TRUE,
                          MemInfo(0, 0, 2, 0)), FALSE),
      \* b: provides bar and h
      Library("b", Module(<<Export(ExportKey("bar", F1), 0),
                            Export(ExportKey("h", F0), 0)>>,
                          <<>>, <<>>, <<>>, <<>>, FALSE,
                          MemInfo(12, 2, 0, 0)), FALSE),
      \* b: dlopen-able, provides cabi_realloc
      Library("b", Module(<<Export(ExportKey("cabi_realloc", ReallocType), 0)>>,
                          <<>>, <<>>, <<>>, <<>>, FALSE,
                          MemInfo(48, 4, 0, 0)), TRUE),
      \* c: component exports, provides and calls cabi_realloc, needs b
      Library("c", Module(<<Export(ExportKey("cabi_realloc", ReallocType), 0)>>,
                          <<EnvImport("cabi_realloc", ReallocType, 0)>>,
                          <<>>, <<>>, <<"b">>, TRUE,
                          MemInfo(20, 2, 0, 0)), FALSE),
      \* c: component exports, its dylink.0 memory size is 2^32 - 2^20 (held as
      \* the i32 of the same bits, see the u32 arithmetic below)
      Library("c", Module(<<>>, <<>>, <<>>, <<>>, <<>>, TRUE,
                          MemInfo(-STACK_SIZE_BYTES, 0, 0, 0)), FALSE),
      \* c: component exports, needs a library nobody provides
      Library("c", Module(<<>>, <<>>, <<>>, <<>>, <<"zz">>, TRUE,
                          MemInfo(0, 0, 0, 0)), FALSE),
      \* a: dlopen-able, component exports, provides k, needs b and c, two raw
      \* imports from the host, has data relocs and constructors
      Library("a", WithInitializers(
                       WithImports(
                           Module(<<Export(ExportKey("k", F1), 0)>>,
                                  <<>>, <<>>, <<>>, <<"b", "c">>, TRUE,
                                  MemInfo(6, 0, 0, 0)),
                           <<Import("host", "now", F0),
                             Import("host", "flag", GlobalType("I32", FALSE))>>),
                       TRUE, TRUE, FALSE), TRUE) }

Metadata(lib) ==
    [name |-> lib.name,
     dl_openable |-> lib.dl_openable,
     exports |-> lib.module.exports,
     env_imports |-> lib.module.env_imports,
     memory_address_imports |-> lib.module.memory_address_imports,
     table_address_imports |-> lib.module.table_address_imports,
     needed_libs |-> lib.module.needed_libs,
     has_component_exports |-> lib.module.has_component_exports,
     mem_info |-> lib.module.mem_info,
     imports |-> lib.module.imports,
     has_data_relocs |-> lib.module.has_data_relocs,
     has_ctors |-> lib.module.has_ctors,
     has_set_libraries |-> lib.module.has_set_libraries]

AllMetadata(libs) == MapSeq(Metadata, libs)

Names(libs) == {libs[i].name : i \in 1..Len(libs)}

(***************************************************************************)
(* resolve_exporters: ExportKey -> the (library name, export) pairs that   *)
(* export it, in library order.                                            *)
(***************************************************************************)
ExportedKeys(metadata) ==
    UNION {{metadata[i].exports[j].key : j \in 1..Len(metadata[i].exports)} :
           i \in 1..Len(metadata)}

resolve_exporters(metadata) ==
    [k \in ExportedKeys(metadata) |->
        Flatten([i \in 1..Len(metadata) |->
            LET hits == SelectSeq(metadata[i].exports, LAMBDA e : e.key = k)
            IN  [j \in 1..Len(hits) |->
                    [lib |-> metadata[i].name, export |-> hits[j]]]])]

(***************************************************************************)
(* Linker::encode, the cabi_realloc special case: the exporter list of     *)
(* cabi_realloc is cut to its first entry.                                 *)
(***************************************************************************)
ReallocKey == ExportKey("cabi_realloc", ReallocType)

CollapseRealloc(exporters) ==
    IF ReallocKey \in DOMAIN exporters
    THEN [exporters EXCEPT ![ReallocKey] = <<Head(exporters[ReallocKey])>>]
    ELSE exporters

CabiReallocExporter(exporters) ==
    IF ReallocKey \in DOMAIN exporters
    THEN Some(Head(exporters[ReallocKey]).lib)
    ELSE None

(***************************************************************************)
(* resolve_symbols.  function_exporters is collected from a HashMap into a *)
(* HashMap keyed by name only: of several function keys with one name any  *)
(* one may survive, so the map is a choice among them.                     *)
(***************************************************************************)
FunctionKeys(keys) == {k \in keys : IsFunction(k.ty)}

\* The maps that give every name in `names` one of the keys of that name.
RECURSIVE ChoicesFor(_, _)
ChoicesFor(keys, names) ==
    IF names = {} THEN {<<>>}
    ELSE LET n == CHOOSE n \in names : TRUE
         IN  {[x \in names |-> IF x = n THEN k ELSE fe[x]] :
                 fe \in ChoicesFor(keys, names \ {n}),
                 k \in {k \in keys : k.name = n}}

FunctionExporterChoices(keys) ==
    ChoicesFor(FunctionKeys(keys), {k.name : k \in FunctionKeys(keys)})

Entry(bucket, importer, export, key, exporters) ==
    [bucket |-> bucket, importer |-> importer, export |-> export,
     key |-> key, exporters |-> exporters]

\* A triage that takes any exporter of the key, however many there are.
triage_any(exporters, importer, export) ==
    IF export.key \in DOMAIN exporters
    THEN Entry("resolved", importer, export, export.key, exporters[export.key])
    ELSE Entry("missing", importer, export, export.key, <<>>)

\* The closure `triage`: one import against the exporter map.
triage(exporters, importer, export) ==
    IF export.key \in DOMAIN exporters
    THEN IF Len(exporters[export.key]) = 1
         THEN Entry("resolved", importer, export, export.key, exporters[export.key])
         ELSE Entry("duplicates", importer, export, export.key, exporters[export.key])
    ELSE Entry("missing", importer, export, export.key, <<>>)

\* The body of the second loop: one GOT.func import, matched by name only.
triage_table(fe, exporters, importer, name) ==
    LET placeholder == Export(ExportKey(name, FunctionType(<<>>, <<>>)), 0)
    IN  IF name \in DOMAIN fe
        THEN IF Len(exporters[fe[name]]) = 1
             THEN Entry("resolved", importer, placeholder, fe[name], exporters[fe[name]])
             ELSE Entry("duplicates", importer, placeholder, fe[name], exporters[fe[name]])
        ELSE Entry("missing", importer, placeholder, placeholder.key, <<>>)

EnvImportExport(imp) == Export(ExportKey(imp.name, imp.ty), imp.flags)

MemoryImportExport(name) == Export(ExportKey(name, GlobalType("I32", FALSE)), 0)

\* Every triage result, in the order the two loops produce them.
Triaged(metadata, exporters, fe) ==
    Flatten([i \in 1..Len(metadata) |->
        [j \in 1..Len(metadata[i].env_imports) |->
            triage(exporters, metadata[i].name,
                   EnvImportExport(metadata[i].env_imports[j]))]
        \o
        [j \in 1..Len(metadata[i].memory_address_imports) |->
            triage(exporters, metadata[i].name,
                   MemoryImportExport(metadata[i].memory_address_imports[j]))]])
    \o
    Flatten([i \in 1..Len(metadata) |->
        [j \in 1..Len(metadata[i].table_address_imports) |->
            triage_table(fe, exporters, metadata[i].name,
                         metadata[i].table_address_imports[j])]])

resolve_symbols(metadata, exporters, fe) ==
    LET all == Triaged(metadata, exporters, fe)
        res == SelectSeq(all, LAMBDA t : t.bucket = "resolved")
        mis == SelectSeq(all, LAMBDA t : t.bucket = "missing")
        dup == SelectSeq(all, LAMBDA t : t.bucket = "duplicates")
    IN  [resolved |-> [k \in {res[i].key : i \in 1..Len(res)} |-> exporters[k][1]],
         missing |-> [i \in 1..Len(mis) |->
                        [importer |-> mis[i].importer, export |-> mis[i].export]],
         duplicates |-> [i \in 1..Len(dup) |->
                        [importer |-> dup[i].importer, key |-> dup[i].key,
                         exporters |-> dup[i].exporters]]]

(***************************************************************************)
(* wasmparser::validate, as far as the synthesized modules can fail it: a  *)
(* module's export names are distinct.                                     *)
(***************************************************************************)
ValidExportNames(names) == NoDuplicates(names)

(***************************************************************************)
(* make_stubs_module: one trapping function per entry of `missing`, then   *)
(* wasmparser::validate(..).unwrap().                                      *)
(***************************************************************************)
StubsName == "wit-component:stubs"

StubExports(mis) == [i \in 1..Len(mis) |-> Export(mis[i].export.key, 0)]

make_stubs_module(mis) ==
    LET exports == StubExports(mis)
    IN  [panic |-> ~ValidExportNames([i \in 1..Len(exports) |-> exports[i].key.name]),
         module |-> Module(exports, <<>>, <<>>, <<>>, <<>>, FALSE,
                           MemInfo(0, 0, 0, 0))]

\* The condition under which encode stubs the missing symbols.
CanStub(mis, flag) ==
    /\ \A i \in 1..Len(mis) : IsFunction(mis[i].export.key.ty)
    /\ \/ flag
       \/ \A i \in 1..Len(mis) : IsWeak(mis[i].export.flags)

(***************************************************************************)
(* find_dependencies                                                       *)
(***************************************************************************)
Get(map, k) == IF k \in DOMAIN map THEN map[k] ELSE {}

\* indexes: library name -> index; a later library of the same name wins.
Indexes(metadata) ==
    [n \in {metadata[i].name : i \in 1..Len(metadata)} |->
        CHOOSE i \in 1..Len(metadata) :
            /\ metadata[i].name = n
            /\ \A j \in 1..Len(metadata) : metadata[j].name = n => j <= i]

find_function_exporter(name, ty, exporters) ==
    IF ExportKey(name, ty) \in DOMAIN exporters
    THEN Some(exporters[ExportKey(name, ty)])
    ELSE None

find_offset_exporter(name, exporters) ==
    IF ExportKey(name, GlobalType("I32", FALSE)) \in DOMAIN exporters
    THEN Some(exporters[ExportKey(name, GlobalType("I32", FALSE))])
    ELSE None

\* The first loop: dependencies by name (needed_libs and env-import exporters).
DirectDependencies(metadata, exporters) ==
    LET of(i) ==
            SeqToSet(metadata[i].needed_libs)
            \cup {find_function_exporter(metadata[i].env_imports[j].name,
                                         metadata[i].env_imports[j].ty,
                                         exporters)[1].lib :
                  j \in 1..Len(metadata[i].env_imports)}
        keyed == {metadata[i].name : i \in {i \in 1..Len(metadata) : of(i) # {}}}
    IN  [n \in keyed |->
            UNION {of(i) : i \in {i \in 1..Len(metadata) : metadata[i].name = n}}]

\* The `loop`: add indirect dependencies until nothing is new.
RECURSIVE TransitiveLoop(_)
TransitiveLoop(deps) ==
    LET new == [index \in DOMAIN deps |->
                   UNION {Get(deps, exporter) : exporter \in deps[index]}
                   \ deps[index]]
    IN  IF \A index \in DOMAIN deps : new[index] = {}
        THEN deps
        ELSE TransitiveLoop([index \in DOMAIN deps |-> deps[index] \cup new[index]])

\* status: "ok", "err" (the `?` on find_function_exporter) or "panic"
\* (indexes[v] of a name that is no library).
find_dependencies(metadata, exporters) ==
    LET indexes == Indexes(metadata)
        unresolved ==
            \E i \in 1..Len(metadata) : \E j \in 1..Len(metadata[i].env_imports) :
                find_function_exporter(metadata[i].env_imports[j].name,
                                       metadata[i].env_imports[j].ty,
                                       exporters) = None
    IN  IF unresolved THEN [status |-> "err", dependencies |-> <<>>]
        ELSE LET byName == DirectDependencies(metadata, exporters)
             IN  IF \E n \in DOMAIN byName : ~(byName[n] \subseteq DOMAIN indexes)
                 THEN [status |-> "panic", dependencies |-> <<>>]
                 ELSE [status |-> "ok",
                       dependencies |->
                           TransitiveLoop(
                               [i \in {indexes[n] : n \in DOMAIN byName} |->
                                   LET n == CHOOSE n \in DOMAIN byName : indexes[n] = i
                                   IN  {indexes[v] : v \in byName[n]}])]

(***************************************************************************)
(* find_reachable                                                          *)
(***************************************************************************)
find_reachable(metadata, deps) ==
    LET reachable == {i \in 1..Len(metadata) :
                        metadata[i].has_component_exports \/ metadata[i].dl_openable}
    IN  {metadata[i].name :
            i \in reachable \cup UNION {Get(deps, index) : index \in reachable}}

(***************************************************************************)
(* topo_add / topo_sort.  `sorted` is an IndexSet (a sequence without      *)
(* repeats).  The dependency sets are HashSets: ord[i] is the order in     *)
(* which deps[i] is iterated, any permutation of it.                       *)
(***************************************************************************)
\* The sequences that hold every element of S once.
RECURSIVE OrdersOf(_)
OrdersOf(S) ==
    IF S = {} THEN {<<>>}
    ELSE UNION {{Append(p, x) : p \in OrdersOf(S \ {x})} : x \in S}

\* The maps that give every index in D an order of its dependency set.
RECURSIVE OrdersFor(_, _)
OrdersFor(deps, D) ==
    IF D = {} THEN {<<>>}
    ELSE LET d == CHOOSE d \in D : TRUE
         IN  {[x \in D |-> IF x = d THEN o ELSE f[x]] :
                 f \in OrdersFor(deps, D \ {d}), o \in OrdersOf(deps[d])}

IterationOrders(deps) == OrdersFor(deps, DOMAIN deps)

\* An insertion at the front instead of the end.
PushFront(sorted, element) ==
    IF element \in SeqToSet(sorted) THEN sorted ELSE <<element>> \o sorted

IndexSetInsert(sorted, element) ==
    IF element \in SeqToSet(sorted) THEN sorted ELSE Append(sorted, element)

RECURSIVE topo_add(_, _, _, _)
RECURSIVE topo_loop(_, _, _, _, _, _)
\* One `for &dep in deps` loop of topo_add over the rest `ds` of the order;
\* `after` tells the second loop (cycle partners) from the first.  The set
\* after a dependency is a value of its own before the next one is looked at.
topo_loop(sorted, deps, ord, element, ds, after) ==
    IF Len(ds) = 0 THEN sorted
    ELSE LET dep == Head(ds)
             back == element \in Get(deps, dep)
             go == IF after
                   THEN dep \notin SeqToSet(sorted) /\ back
                   ELSE ~(dep \in SeqToSet(sorted) \/ back)
         IN  CHOOSE out \in {topo_loop(next, deps, ord, element, Tail(ds), after) : next \in {IF go THEN topo_add(sorted, deps, ord, dep) ELSE sorted}} : TRUE

topo_add(sorted, deps, ord, element) ==
    LET ds == IF element \in DOMAIN ord THEN ord[element] ELSE <<>>
    IN  CHOOSE out \in {topo_loop(IndexSetInsert(first, element), deps, ord, element, ds, TRUE) : first \in {topo_loop(sorted, deps, ord, element, ds, FALSE)}} : TRUE

RECURSIVE topo_sort_from(_, _, _, _, _)
\* `for index in 0..count`: the set after an index is a value of its own
\* before the next index is added.
topo_sort_from(sorted, index, count, deps, ord) ==
    IF index > count THEN sorted
    ELSE CHOOSE out \in {topo_sort_from(next, index + 1, count, deps, ord) : next \in {topo_add(sorted, deps, ord, index)}} : TRUE

topo_sort(count, deps, ord) == topo_sort_from(<<>>, 1, count, deps, ord)

(***************************************************************************)
(* env_function_exports.  fe is its function_exporters map, collected by   *)
(* name from the resolved map (a HashMap): a choice as in resolve_symbols. *)
(* The walk's state is [status, result, exported, seen].                   *)
(***************************************************************************)
FunctionExport(name, ty, exporter) == [name |-> name, ty |-> ty, exporter |-> exporter]

RECURSIVE efe_table(_, _, _, _, _)
efe_table(st, names, fe, exporters, indexes) ==
    IF Len(names) = 0 \/ st.status # "ok" THEN st
    ELSE LET name == Head(names)
             next ==
                IF name \in st.exported THEN st
                ELSE IF name \notin DOMAIN fe THEN [st EXCEPT !.status = "err"]
                ELSE [st EXCEPT
                        !.result = Append(@, FunctionExport(name, fe[name].ty,
                                              indexes[exporters[fe[name]].lib])),
                        !.exported = @ \cup {name}]
         IN  efe_table(next, Tail(names), fe, exporters, indexes)

RECURSIVE efe_env(_, _, _, _)
efe_env(st, imports, exporters, indexes) ==
    IF Len(imports) = 0 \/ st.status # "ok" THEN st
    ELSE LET imp == Head(imports)
             found == find_function_exporter(imp.name, imp.ty, exporters)
             next ==
                IF imp.name \in st.exported THEN st
                ELSE IF found = None THEN [st EXCEPT !.status = "panic"]
                ELSE IF indexes[found[1].lib] \in st.seen THEN st
                ELSE [st EXCEPT
                        !.result = Append(@, FunctionExport(imp.name, imp.ty,
                                                            indexes[found[1].lib])),
                        !.exported = @ \cup {imp.name}]
         IN  efe_env(next, Tail(imports), exporters, indexes)

\* The walk with a library marked as seen before its own imports are looked at.
RECURSIVE efe_walk_seen_first(_, _, _, _, _, _)
efe_walk_seen_first(st, order, metadata, fe, exporters, indexes) ==
    IF Len(order) = 0 \/ st.status # "ok" THEN st
    ELSE LET index == Head(order)
             t == efe_table(st, metadata[index].table_address_imports, fe,
                            exporters, indexes)
             e == efe_env([t EXCEPT !.seen = @ \cup {index}],
                          metadata[index].env_imports, exporters, indexes)
         IN  efe_walk_seen_first(e, Tail(order), metadata, fe, exporters, indexes)

RECURSIVE efe_walk(_, _, _, _, _, _)
efe_walk(st, order, metadata, fe, exporters, indexes) ==
    IF Len(order) = 0 \/ st.status # "ok" THEN st
    ELSE LET index == Head(order)
             t == efe_table(st, metadata[index].table_address_imports, fe,
                            exporters, indexes)
             e == efe_env(t, metadata[index].env_imports, exporters, indexes)
         IN  efe_walk([e EXCEPT !.seen = @ \cup {index}], Tail(order), metadata,
                      fe, exporters, indexes)

env_function_exports(metadata, exporters, topo, fe) ==
    efe_walk([status |-> "ok", result |-> <<>>, exported |-> {}, seen |-> {}],
             topo, metadata, fe, exporters, Indexes(metadata))

(***************************************************************************)
(* u32 arithmetic.  TLC's integers are 32-bit signed, so a u32 value v is  *)
(* held as v when v <= i32::MAX and as v - 2^32 otherwise (the same bits   *)
(* read as an i32).  `a + b` on u32 panics when overflow checks are on (a  *)
(* debug build) and wraps otherwise; Wraps tells that the sum left the     *)
(* u32 range.  i32::try_from(v) fails exactly when v is held negative.     *)
(***************************************************************************)
Add32(a, b) ==
    IF a >= 0 /\ b >= 0
    THEN IF a > I32_MAX - b
         THEN (a - I32_MAX - 1) + (b - I32_MAX - 1)
         ELSE a + b
    ELSE IF a < 0 /\ b < 0
    THEN IF a < (-I32_MAX - 1) - b
         THEN (a + I32_MAX + 1) + (b + I32_MAX + 1)
         ELSE a + b
    ELSE a + b

Wraps(a, b) ==
    IF a >= 0 /\ b >= 0 THEN FALSE
    ELSE IF a < 0 /\ b < 0 THEN TRUE
    ELSE a + b >= 0

FitsI32(v) == v >= 0

RECURSIVE Pow2(_)
Pow2(n) == IF n = 0 THEN 1 ELSE 2 * Pow2(n - 1)

\* align: (a + (b - 1)) & !(b - 1), b a power of two.
align(a, b) == LET t == Add32(a, b - 1) IN t - (t % b)

AlignWraps(a, b) == Wraps(a, b - 1)

(***************************************************************************)
(* DlOpenables::new.  The buffer is kept as its items, each a padded name  *)
(* or a little-endian u32, with its size in bytes.                         *)
(***************************************************************************)
\* Lexicographic order on the names the model uses (Rust's Ord for &str).
NameOrder ==
    <<"a", "b", "bar", "c", "cabi_realloc", "e", "f", "g", "h", "k", "opt",
      "wit-component:stubs", "x">>

NameRank(n) == CHOOSE i \in 1..Len(NameOrder) : NameOrder[i] = n

NameLeq(a, b) == NameRank(a) <= NameRank(b)

\* No sort: the sequence as it is.
KeepOrder(s) == s

\* sort_by_key(|(name, ..)| *name): a stable sort by name.
RECURSIVE SortByName(_)
SortByName(s) ==
    IF Len(s) <= 1 THEN s
    ELSE LET rest == SortByName(Tail(s))
             before == SelectSeq(rest, LAMBDA r : ~NameLeq(Head(s).name, r.name))
             after == SelectSeq(rest, LAMBDA r : NameLeq(Head(s).name, r.name))
         IN  before \o <<Head(s)>> \o after

BytesItem(text) == [kind |-> "bytes", text |-> text, value |-> 0,
                    size |-> align(Len(text), 4)]

U32Item(value) == [kind |-> "u32", text |-> "", value |-> value, size |-> 4]

RECURSIVE BufferLen(_)
BufferLen(buffer) ==
    IF Len(buffer) = 0 THEN 0 ELSE Head(buffer).size + BufferLen(Tail(buffer))

\* The inner map over one library's exports: names written, slots assigned.
RECURSIVE dl_symbols(_, _, _, _, _)
dl_symbols(st, exports, table_base, memory_base, acc) ==
    IF Len(exports) = 0 THEN [st |-> st, symbols |-> acc]
    ELSE LET export == Head(exports)
             name_address == memory_base + BufferLen(st.buffer)
             isf == IsFunction(export.key.ty)
             sym == [name |-> export.key.name, name_address |-> name_address,
                     function |-> isf,
                     address |-> IF isf THEN table_base + st.function_count ELSE 0]
             st2 == [st EXCEPT !.buffer = Append(@, BytesItem(export.key.name)),
                               !.function_count = IF isf THEN @ + 1 ELSE @]
         IN  dl_symbols(st2, Tail(exports), table_base, memory_base, Append(acc, sym))

\* The `for (name, name_address, address) in symbols` loop.
RECURSIVE dl_records(_, _, _, _)
dl_records(st, symbols, lib, memory_base) ==
    IF Len(symbols) = 0 THEN st
    ELSE LET sym == Head(symbols)
             b1 == st.buffer \o <<U32Item(Len(sym.name)), U32Item(sym.name_address)>>
             st2 == IF sym.function
                    THEN [st EXCEPT !.buffer = Append(b1, U32Item(sym.address))]
                    ELSE [st EXCEPT
                            !.buffer = Append(b1, U32Item(0)),
                            !.global_addresses =
                                Append(@, [exporter |-> lib, name |-> sym.name,
                                           address |-> memory_base + BufferLen(b1)])]
         IN  dl_records(st2, Tail(symbols), lib, memory_base)

RECURSIVE dl_libraries(_, _, _, _, _)
dl_libraries(st, metadata, table_base, memory_base, acc) ==
    IF Len(metadata) = 0 THEN [st |-> st, libraries |-> acc]
    ELSE IF ~Head(metadata).dl_openable
    THEN dl_libraries(st, Tail(metadata), table_base, memory_base, acc)
    ELSE LET m == Head(metadata)
             name_address == memory_base + BufferLen(st.buffer)
             st1 == [st EXCEPT !.buffer = Append(@, BytesItem(m.name))]
             syms == dl_symbols(st1, m.exports, table_base, memory_base, <<>>)
             start == BufferLen(syms.st.buffer)
             st2 == dl_records(syms.st, SortByName(syms.symbols), m.name, memory_base)
             lib == [name |-> m.name, name_address |-> name_address,
                     count |-> Len(m.exports), symbols |-> memory_base + start]
         IN  dl_libraries(st2, Tail(metadata), table_base, memory_base,
                          Append(acc, lib))

\* The `libraries` table written after the symbols, and the trailing header.
dl_table(table_base, memory_base, st, libs) ==
    LET start == BufferLen(st.buffer)
        rows == Flatten([i \in 1..Len(libs) |->
                    <<U32Item(Len(libs[i].name)), U32Item(libs[i].name_address),
                      U32Item(libs[i].count), U32Item(libs[i].symbols)>>])
    IN  [table_base |-> table_base,
         memory_base |-> memory_base,
         buffer |-> st.buffer \o rows \o
                    <<U32Item(Len(libs)), U32Item(memory_base + start)>>,
         global_addresses |-> st.global_addresses,
         function_count |-> st.function_count,
         libraries_address |-> memory_base + start + BufferLen(rows)]

dl_sorted(table_base, memory_base, built) ==
    dl_table(table_base, memory_base, built.st, SortByName(built.libraries))

DlOpenables_new(table_base, memory_base, metadata) ==
    dl_sorted(table_base, memory_base,
              dl_libraries([buffer |-> <<>>, function_count |-> 0,
                            global_addresses |-> <<>>],
                           metadata, table_base, memory_base, <<>>))

(***************************************************************************)
(* make_env_module.  Indices into the module's index spaces are 0-based as *)
(* in the code.  The walk's state carries the two offsets, the globals and *)
(* exports built so far, `wrapped` (some u32 addition left the range) and  *)
(* `failed` (some unwrap() failed).  import_map is a HashMap: `imported`   *)
(* is its entries in the order the export loop iterates them, any          *)
(* permutation of them.                                                    *)
(***************************************************************************)
ExportItem(name, kind, index) == [name |-> name, kind |-> kind, index |-> index]

\* The first loop: the distinct raw imports in the order they are first seen,
\* each with the value import_map keeps for it (for a function the length of
\* `types` before its type is added, for a global the next global_offset).
RECURSIVE import_walk(_, _, _, _)
import_walk(imports, acc, types_len, global_offset) ==
    IF Len(imports) = 0 THEN acc
    ELSE IF \E i \in 1..Len(acc) : acc[i].import = Head(imports)
    THEN import_walk(Tail(imports), acc, types_len, global_offset)
    ELSE IF IsFunction(Head(imports).ty)
    THEN import_walk(Tail(imports),
                     Append(acc, [import |-> Head(imports), offset |-> types_len]),
                     types_len + 1, global_offset)
    ELSE import_walk(Tail(imports),
                     Append(acc, [import |-> Head(imports), offset |-> global_offset]),
                     types_len, global_offset + 1)

import_map(metadata) ==
    import_walk(Flatten([i \in 1..Len(metadata) |-> metadata[i].imports]),
                <<>>, 0, 0)

\* The orders in which a HashMap with these entries may be iterated.
MapOrders(entries) ==
    {[i \in 1..Len(entries) |-> entries[p[i]]] : p \in OrdersOf(1..Len(entries))}

\* The number of function imports of the env module besides cabi_realloc.
FunctionImports(imported) ==
    Cardinality({i \in 1..Len(imported) : IsFunction(imported[i].import.ty)})

\* The `for (import, offset) in import_map` loop.
import_exports(imported) ==
    [i \in 1..Len(imported) |->
        ExportItem(imported[i].import.module \o ":" \o imported[i].import.name,
                   IF IsFunction(imported[i].import.ty) THEN "Func" ELSE "Global",
                   imported[i].offset)]

\* The closure with every global defined immutable.
add_immutable_global_export(st, name, value, mutable) ==
    [st EXCEPT
        !.globals = Append(@, [value |-> value, mutable |-> FALSE]),
        !.exports = Append(@, ExportItem(name, "Global", Len(st.globals))),
        !.failed = @ \/ ~FitsI32(value)]

\* The closure add_global_export.
add_global_export(st, name, value, mutable) ==
    [st EXCEPT
        !.globals = Append(@, [value |-> value, mutable |-> mutable]),
        !.exports = Append(@, ExportItem(name, "Global", Len(st.globals))),
        !.failed = @ \/ ~FitsI32(value)]

RECURSIVE env_address_globals(_, _, _, _)
\* `for import in ..` exporting "{lib}:{import}" with the value value[import].
env_address_globals(st, lib, imports, value) ==
    IF Len(imports) = 0 THEN st
    ELSE env_address_globals(
            IF Head(imports) \in DOMAIN value
            THEN add_global_export(st, lib \o ":" \o Head(imports),
                                   value[Head(imports)], TRUE)
            ELSE [st EXCEPT !.failed = TRUE],
            lib, Tail(imports), value)

\* The first `for metadata in metadata` loop: bases and GOT.mem globals.
RECURSIVE env_layout(_, _)
env_layout(st, metadata) ==
    IF Len(metadata) = 0 THEN st
    ELSE LET m == Head(metadata)
             ma == Pow2(m.mem_info.memory_alignment)
             ta == Pow2(m.mem_info.table_alignment)
             memory_base == align(st.memory_offset, ma)
             table_base == align(st.table_offset, ta)
             s1 == add_global_export(st, m.name \o ":memory_base", memory_base, FALSE)
             s2 == add_global_export(s1, m.name \o ":table_base", table_base, FALSE)
             s3 == [s2 EXCEPT
                      !.memory_offset = Add32(memory_base, m.mem_info.memory_size),
                      !.table_offset = Add32(table_base, m.mem_info.table_size),
                      !.wrapped = @ \/ AlignWraps(st.memory_offset, ma)
                                    \/ AlignWraps(st.table_offset, ta)
                                    \/ Wraps(memory_base, m.mem_info.memory_size)
                                    \/ Wraps(table_base, m.mem_info.table_size),
                      !.bases = Append(@, [name |-> m.name,
                                           memory_base |-> memory_base,
                                           memory_size |-> m.mem_info.memory_size,
                                           table_base |-> table_base,
                                           table_size |-> m.mem_info.table_size])]
         IN  env_layout(env_address_globals(s3, m.name, m.memory_address_imports,
                            [n \in SeqToSet(m.memory_address_imports) |-> 0]),
                        Tail(metadata))

\* The second `for metadata in metadata` loop: GOT.func globals.
RECURSIVE env_table_globals(_, _, _)
env_table_globals(st, metadata, offsets) ==
    IF Len(metadata) = 0 THEN st
    ELSE env_table_globals(
            env_address_globals(st, Head(metadata).name,
                                Head(metadata).table_address_imports, offsets),
            Tail(metadata), offsets)

\* The `for (name, ty, _) in function_exports` loop: one thunk per entry.
RECURSIVE env_thunks(_, _, _)
env_thunks(st, fx, types_len) ==
    IF Len(fx) = 0 THEN st
    ELSE env_thunks(
            [st EXCEPT
                !.thunks = Append(@, [name |-> Head(fx).name, ty |-> Head(fx).ty,
                                      slot |-> st.table_offset,
                                      function |-> st.function_imports
                                                   + Len(st.thunks)]),
                !.exports = Append(@, ExportItem(Head(fx).name, "Func", types_len)),
                !.failed = @ \/ ~FitsI32(st.table_offset),
                !.wrapped = @ \/ Wraps(st.table_offset, 1),
                !.table_offset = Add32(@, 1)],
            Tail(fx), types_len + 1)

\* The table slot of each function export: the last entry of a name wins
\* (`collect::<HashMap<_, _>>()`).
env_offsets(table_offset, fx) ==
    [n \in {fx[i].name : i \in 1..Len(fx)} |->
        LET i == CHOOSE i \in 1..Len(fx) :
                     /\ fx[i].name = n
                     /\ \A j \in 1..Len(fx) : fx[j].name = n => j <= i
        IN  Add32(table_offset, i - 1)]

\* The end of make_env_module: the exports of the table and the memory, the
\* validation of the module, and the values the caller uses.
env_finish(dl, imported, indirection_table_base, heap_base, heap_end, s4) ==
    LET exports == s4.exports \o import_exports(imported) \o
                   <<ExportItem("__indirect_function_table", "Table", 0),
                     ExportItem("memory", "Memory", 0)>>
        panic == \/ s4.failed
                 \/ ~ValidExportNames([i \in 1..Len(s4.exports) + Len(imported) + 2 |->
                                          exports[i].name])
    IN  [status |-> IF panic THEN "panic" ELSE "ok",
         wrapped |-> s4.wrapped,
         dl_openables |-> dl,
         indirection_table_base |-> indirection_table_base,
         bases |-> s4.bases,
         heap_base |-> heap_base,
         heap_end |-> heap_end,
         imported |-> imported,
         globals |-> s4.globals,
         thunks |-> s4.thunks,
         exports |-> exports,
         table_minimum |-> s4.table_offset,
         memory_minimum |-> heap_end \div PAGE_SIZE_BYTES]

\* __heap_base and __heap_end, then the thunks.
env_heap(fx, dl, imported, s2) ==
    LET heap_base == align(s2.memory_offset, HEAP_ALIGNMENT_BYTES)
        heap_end == align(heap_base, PAGE_SIZE_BYTES)
        s3 == add_global_export(
                  add_global_export(
                      [s2 EXCEPT !.memory_offset = heap_base,
                                 !.wrapped = @ \/ AlignWraps(s2.memory_offset,
                                                             HEAP_ALIGNMENT_BYTES)
                                               \/ AlignWraps(heap_base, PAGE_SIZE_BYTES)],
                      "__heap_base", heap_base, TRUE),
                  "__heap_end", heap_end, TRUE)
    IN  env_finish(dl, imported, s2.table_offset, heap_base, heap_end,
                   env_thunks(s3, fx, s2.function_imports))

\* The GOT.func globals, from the table offset the first loop ended with.
env_tables(metadata, fx, dl, imported, s1) ==
    env_heap(fx, dl, imported,
             env_table_globals(
                 [s1 EXCEPT !.wrapped = @ \/ (Len(fx) > 0 /\
                                              Wraps(s1.table_offset, Len(fx) - 1))],
                 metadata, env_offsets(s1.table_offset, fx)))

\* __stack_pointer and the layout loop, after the dlopen table.
env_start(metadata, fx, cabi, dl, imported) ==
    env_tables(metadata, fx, dl, imported,
        env_layout(
            add_global_export(
                [memory_offset |-> Add32(STACK_SIZE_BYTES, BufferLen(dl.buffer)),
                 table_offset |-> Add32(0, dl.function_count),
                 function_imports |-> FunctionImports(imported)
                                      + (IF cabi = None THEN 0 ELSE 1),
                 globals |-> <<>>,
                 exports |-> IF cabi = None THEN <<>>
                             ELSE <<ExportItem("cabi_realloc", "Func",
                                               FunctionImports(imported))>>,
                 thunks |-> <<>>,
                 bases |-> <<>>,
                 wrapped |-> Wraps(STACK_SIZE_BYTES, BufferLen(dl.buffer)),
                 failed |-> FALSE],
                "__stack_pointer", STACK_SIZE_BYTES, TRUE),
            metadata))

\* The result is that of a build without overflow checks, and `wrapped`
\* tells whether a build with them panics instead.
make_env_module(metadata, fx, cabi, imported) ==
    env_start(metadata, fx, cabi,
              DlOpenables_new(0, STACK_SIZE_BYTES, metadata), imported)

(***************************************************************************)
(* make_init_module.  An instruction is [op, arg]; function and global     *)
(* imports are kept in the order they are added, so an import's index is   *)
(* its position (0-based, as in the code).  The walk's state carries the   *)
(* two import lists, the three instruction lists and `failed` (some        *)
(* unwrap() failed) and `err` (a `?` returned an error).                   *)
(***************************************************************************)
Ins(op, arg) == [op |-> op, arg |-> arg]

\* add_global_import / add_function_import: `or_insert_with` adds the import
\* unless the map has (module, name) already.
AddImport(imports, module, name, ty) ==
    IF \E i \in 1..Len(imports) : imports[i].module = module /\ imports[i].name = name
    THEN imports
    ELSE Append(imports, Import(module, name, ty))

\* The index the map holds for (module, name).
ImportIndex(imports, module, name) ==
    (CHOOSE i \in 1..Len(imports) :
        imports[i].module = module /\ imports[i].name = name) - 1

\* One fix-up of a dlopen-table slot, given the global imports after it.
init_fixup(st, a, globals) ==
    [st EXCEPT
        !.globals = globals,
        !.failed = @ \/ ~FitsI32(a.address),
        !.memory_address_inits = @ \o
            <<Ins("i32.const", a.address),
              Ins("global.get", ImportIndex(globals, "env", a.exporter \o ":memory_base")),
              Ins("global.get", ImportIndex(globals, a.exporter, a.name)),
              Ins("i32.add", 0),
              Ins("i32.store", 0)>>]

\* The `for (exporter, export, address) in dl_openables.global_addresses` loop.
RECURSIVE init_fixups(_, _)
init_fixups(st, addresses) ==
    IF Len(addresses) = 0 THEN st
    ELSE init_fixups(
            init_fixup(st, Head(addresses),
                AddImport(AddImport(st.globals, "env",
                                    Head(addresses).exporter \o ":memory_base", FALSE),
                          Head(addresses).exporter, Head(addresses).name, FALSE)),
            Tail(addresses))

\* One call of an initializer function, given the function imports after it.
init_reloc(st, m, functions) ==
    [st EXCEPT
        !.functions = functions,
        !.reloc_calls = Append(@, Ins("call",
            ImportIndex(functions, m.name, "__wasm_apply_data_relocs")))]

init_ctor(st, m, functions) ==
    [st EXCEPT
        !.functions = functions,
        !.ctor_calls = Append(@, Ins("call",
            ImportIndex(functions, m.name, "__wasm_call_ctors")))]

init_set_libraries(st, m, functions, libraries_address) ==
    [st EXCEPT
        !.functions = functions,
        !.failed = @ \/ ~FitsI32(libraries_address),
        !.ctor_calls = @ \o
            <<Ins("i32.const", libraries_address),
              Ins("call", ImportIndex(functions, m.name, "__wasm_set_libraries"))>>]

\* One GOT.mem import of library `lib`, exported by `exporter`, given the
\* global imports after it.
init_address(st, lib, import, exporter, globals) ==
    [st EXCEPT
        !.globals = globals,
        !.memory_address_inits = @ \o
            <<Ins("global.get", ImportIndex(globals, "env", exporter \o ":memory_base")),
              Ins("global.get", ImportIndex(globals, exporter, import)),
              Ins("i32.add", 0),
              Ins("global.set", ImportIndex(globals, "env", lib \o ":" \o import))>>]

\* The `for import in &metadata.memory_address_imports` loop.
RECURSIVE init_addresses(_, _, _, _)
init_addresses(st, lib, imports, exporters) ==
    IF Len(imports) = 0 \/ st.err THEN st
    ELSE IF find_offset_exporter(Head(imports), exporters) = None
    THEN [st EXCEPT !.err = TRUE]
    ELSE init_addresses(
            init_address(st, lib, Head(imports),
                find_offset_exporter(Head(imports), exporters)[1].lib,
                AddImport(
                    AddImport(
                        AddImport(st.globals, "env",
                            find_offset_exporter(Head(imports), exporters)[1].lib
                                \o ":memory_base", FALSE),
                        find_offset_exporter(Head(imports), exporters)[1].lib,
                        Head(imports), FALSE),
                    "env", lib \o ":" \o Head(imports), TRUE)),
            lib, Tail(imports), exporters)

\* The three `if metadata.has_..` of one library.
init_relocs(st, m) ==
    IF m.has_data_relocs
    THEN init_reloc(st, m, AddImport(st.functions, m.name, "__wasm_apply_data_relocs", 0))
    ELSE st

init_ctors(st, m) ==
    IF m.has_ctors
    THEN init_ctor(st, m, AddImport(st.functions, m.name, "__wasm_call_ctors", 0))
    ELSE st

init_libraries(st, m, libraries_address) ==
    IF m.has_set_libraries
    THEN init_set_libraries(st, m,
             AddImport(st.functions, m.name, "__wasm_set_libraries", 1),
             libraries_address)
    ELSE st

\* The `for (index, metadata) in metadata.iter().enumerate()` loop.
RECURSIVE init_walk(_, _, _, _)
init_walk(st, metadata, exporters, libraries_address) ==
    IF Len(metadata) = 0 \/ st.err THEN st
    ELSE init_walk(
            init_addresses(
                init_libraries(init_ctors(init_relocs(st, Head(metadata)),
                                          Head(metadata)),
                               Head(metadata), libraries_address),
                Head(metadata).name, Head(metadata).memory_address_imports,
                exporters),
            Tail(metadata), exporters, libraries_address)

\* The function exports of the dlopen-able libraries, as (library, name, type).
dl_function_exports(metadata) ==
    Flatten([i \in 1..Len(metadata) |->
        IF metadata[i].dl_openable
        THEN [j \in 1..Len(SelectSeq(metadata[i].exports,
                                     LAMBDA e : IsFunction(e.key.ty))) |->
                 [lib |-> metadata[i].name,
                  name |-> SelectSeq(metadata[i].exports,
                                     LAMBDA e : IsFunction(e.key.ty))[j].key.name,
                  ty |-> SelectSeq(metadata[i].exports,
                                   LAMBDA e : IsFunction(e.key.ty))[j].key.ty]]
        ELSE <<>>])

\* A run of add_function_import over (library, name) pairs; the type of the
\* k-th pair is type_offset + k - 1.  The result has the function imports
\* and the index returned for every pair.
RECURSIVE init_imports(_, _, _, _)
init_imports(functions, pairs, type_offset, acc) ==
    IF Len(pairs) = 0 THEN [functions |-> functions, indexes |-> acc]
    ELSE init_imports(
            AddImport(functions, Head(pairs).lib, Head(pairs).name, type_offset),
            Tail(pairs), type_offset + 1,
            Append(acc, ImportIndex(
                AddImport(functions, Head(pairs).lib, Head(pairs).name, type_offset),
                Head(pairs).lib, Head(pairs).name)))

\* The same imports taken from the last function export to the first.
reversed_pairs(metadata, fx) ==
    [i \in 1..Len(fx) |-> [lib |-> metadata[fx[Len(fx) + 1 - i].exporter].name, name |-> fx[Len(fx) + 1 - i].name]]

\* `indirections`: the import of every function export from names[index].
indirection_pairs(metadata, fx) ==
    [i \in 1..Len(fx) |-> [lib |-> metadata[fx[i].exporter].name, name |-> fx[i].name]]

\* The types section: () -> (), (i32) -> (), then the types of the dlopen
\* functions and of the function exports.
init_types(metadata, fx) ==
    <<FunctionType(<<>>, <<>>), FunctionType(<<"I32">>, <<>>)>>
    \o [i \in 1..Len(dl_function_exports(metadata)) |->
            dl_function_exports(metadata)[i].ty]
    \o [i \in 1..Len(fx) |-> fx[i].ty]

\* The sections of the module, from the walk's state and the two runs of
\* function imports.
init_finish(metadata, fx, dl, indirection_table_base, st, dlf, ind) ==
    [status |-> IF st.err THEN "err"
                ELSE IF \/ st.failed
                        \/ ~FitsI32(dl.table_base)
                        \/ ~FitsI32(indirection_table_base)
                        \/ ~FitsI32(dl.memory_base)
                     THEN "panic" ELSE "ok",
     types |-> init_types(metadata, fx),
     globals |-> st.globals,
     functions |-> ind.functions,
     start_function |-> Len(ind.functions),
     start |-> st.memory_address_inits \o st.reloc_calls \o st.ctor_calls,
     elements |-> <<[offset |-> dl.table_base, functions |-> dlf.indexes],
                    [offset |-> indirection_table_base, functions |-> ind.indexes]>>,
     data |-> [offset |-> dl.memory_base, length |-> BufferLen(dl.buffer)]]

init_indirections(metadata, fx, dl, indirection_table_base, st, dlf) ==
    init_finish(metadata, fx, dl, indirection_table_base, st, dlf,
        init_imports(dlf.functions, indirection_pairs(metadata, fx),
                     2 + Len(dl_function_exports(metadata)), <<>>))

init_elements(metadata, fx, dl, indirection_table_base, st) ==
    init_indirections(metadata, fx, dl, indirection_table_base, st,
        init_imports(st.functions, dl_function_exports(metadata), 2, <<>>))

make_init_module(metadata, exporters, fx, dl, indirection_table_base) ==
    init_elements(metadata, fx, dl, indirection_table_base,
        init_walk(
            init_fixups([globals |-> <<>>, functions |-> <<>>,
                         memory_address_inits |-> <<>>, reloc_calls |-> <<>>,
                         ctor_calls |-> <<>>, failed |-> FALSE, err |-> FALSE],
                        dl.global_addresses),
            metadata, exporters, dl.libraries_address))

(***************************************************************************)
(* The library loop of Linker::encode: the arguments of every              *)
(* encoder.library call.  An Item is [alias, kind, which, name]; `which`   *)
(* is Main (the env module) or Adapter(name) (the library of that name).   *)
(***************************************************************************)
Main == [kind |-> "Main", name |-> ""]

Adapter(name) == [kind |-> "Adapter", name |-> name]

Item(alias, kind, which, name) ==
    [alias |-> alias, kind |-> kind, which |-> which, name |-> name]

default_env_items ==
    <<Item("memory", "Memory", Main, "memory"),
      Item("__indirect_function_table", "Table", Main, "__indirect_function_table"),
      Item("__stack_pointer", "Global", Main, "__stack_pointer")>>

\* An item that points to the env module whatever has been registered.
main_item(imp, exporters, seen) == Item(imp.name, "Func", Main, imp.name)

\* The item of one env import; `seen` has the names of the libraries the
\* loop has registered so far.
env_import_item(imp, exporters, seen) ==
    LET found == find_function_exporter(imp.name, imp.ty, exporters)
    IN  Item(imp.name, "Func",
             IF found # None /\ found[1].lib \in seen
             THEN Adapter(found[1].lib) ELSE Main,
             imp.name)

env_items(metadata, exporters, seen) ==
    default_env_items
    \o <<Item("__memory_base", "Global", Main, metadata.name \o ":memory_base"),
         Item("__table_base", "Global", Main, metadata.name \o ":table_base")>>
    \o [k \in 1..Len(metadata.env_imports) |->
            env_import_item(metadata.env_imports[k], exporters, seen)]

global_item(metadata, address_name) ==
    Item(address_name, "Global", Main, metadata.name \o ":" \o address_name)

mem_items(metadata) ==
    [k \in 1..Len(metadata.memory_address_imports) |->
        global_item(metadata, metadata.memory_address_imports[k])]
    \o <<Item("__heap_base", "Global", Main, "__heap_base"),
         Item("__heap_end", "Global", Main, "__heap_end")>>

func_items(metadata) ==
    [k \in 1..Len(metadata.table_address_imports) |->
        global_item(metadata, metadata.table_address_imports[k])]

\* import_items: for every module of the raw imports its items, in the
\* order of the imports.
import_items(metadata) ==
    [m \in {metadata.imports[k].module : k \in 1..Len(metadata.imports)} |->
        LET of == SelectSeq(metadata.imports, LAMBDA i : i.module = m)
        IN  [k \in 1..Len(of) |->
                Item(of[k].name, IF IsFunction(of[k].ty) THEN "Func" ELSE "Global",
                     Main, of[k].module \o ":" \o of[k].name)]]

\* The arguments of one encoder.library call.
LibraryInfo(metadata, exporters, seen) ==
    [library |-> metadata.name,
     mem |-> mem_items(metadata),
     func |-> func_items(metadata),
     env |-> env_items(metadata, exporters, seen),
     imports |-> import_items(metadata),
     panics |-> \E k \in 1..Len(metadata.env_imports) :
                    find_function_exporter(metadata.env_imports[k].name,
                                           metadata.env_imports[k].ty,
                                           exporters) = None]

\* `for index in topo_sorted`, with `seen.insert(name)` after each call.
RECURSIVE library_loop(_, _, _, _, _)
library_loop(order, metadata, exporters, seen, acc) ==
    IF Len(order) = 0 THEN acc
    ELSE library_loop(Tail(order), metadata, exporters,
                      seen \cup {metadata[Head(order)].name},
                      Append(acc, LibraryInfo(metadata[Head(order)], exporters, seen)))

(***************************************************************************)
(* The Linker builder and Linker::encode                                   *)
(***************************************************************************)
Init ==
    /\ libraries = <<>>
    /\ stub_missing_functions = FALSE
    /\ pc = "build"
    /\ result = "none"
    /\ input = <<>>
    /\ restarts = <<>>
    /\ function_exporters = <<>>
    /\ resolved = <<>>
    /\ missing = <<>>
    /\ duplicates = <<>>
    /\ cabi_realloc_exporter = None
    /\ dependencies = <<>>
    /\ topo_sorted = <<>>
    /\ function_exports = <<>>
    /\ layout = <<>>
    /\ init_module = <<>>
    /\ arguments = <<>>

passVars == <<function_exporters, resolved, missing, duplicates,
              cabi_realloc_exporter, dependencies>>

finalVars == <<topo_sorted, function_exports, layout, init_module, arguments>>

\* A restart (`return self.encode()`): the next pass starts with fresh locals.
FreshPass ==
    /\ pc' = "needed"
    /\ function_exporters' = <<>>
    /\ resolved' = <<>>
    /\ missing' = <<>>
    /\ duplicates' = <<>>
    /\ cabi_realloc_exporter' = None
    /\ dependencies' = <<>>

Return(r) == pc' = "done" /\ result' = r

\* Linker::library
LinkerLibrary(call) ==
    /\ pc = "build"
    /\ Len(libraries) < MaxLibs
    /\ libraries' = Append(libraries, call)
    /\ UNCHANGED <<stub_missing_functions, pc, result, input, restarts,
                   passVars, finalVars>>

\* Linker::stub_missing_functions
LinkerStubMissingFunctions(flag) ==
    /\ pc = "build"
    /\ stub_missing_functions' = flag
    /\ UNCHANGED <<libraries, pc, result, input, restarts, passVars, finalVars>>

\* Linker::encode is called.
Encode ==
    /\ pc = "build"
    /\ pc' = "needed"
    /\ input' = libraries
    /\ UNCHANGED <<libraries, stub_missing_functions, result, restarts,
                   passVars, finalVars>>

\* A check that finds every needed library.
NoMissingLibraries(libs) == {}

\* The needed_libs that name no library of the list.
MissingLibraries(libs) ==
    UNION {{<<libs[i].name, n>> :
                n \in SeqToSet(libs[i].module.needed_libs) \ Names(libs)} :
           i \in 1..Len(libs)}

\* encode: the "missing libraries" check.
CheckNeededLibs ==
    /\ pc = "needed"
    /\ IF MissingLibraries(libraries) # {}
       THEN Return("missing libraries")
       ELSE pc' = "resolve" /\ UNCHANGED result
    /\ UNCHANGED <<libraries, stub_missing_functions, input, restarts,
                   passVars, finalVars>>

\* encode: resolve_exporters, the cabi_realloc collapse, resolve_symbols.
ResolveSymbols ==
    /\ pc = "resolve"
    /\ LET metadata == AllMetadata(libraries)
           all == resolve_exporters(metadata)
           exporters == CollapseRealloc(all)
       IN  \E fe \in FunctionExporterChoices(DOMAIN exporters) :
              LET r == resolve_symbols(metadata, exporters, fe)
              IN  /\ function_exporters' = fe
                  /\ resolved' = r.resolved
                  /\ missing' = r.missing
                  /\ duplicates' = r.duplicates
                  /\ cabi_realloc_exporter' = CabiReallocExporter(all)
    /\ pc' = "missing"
    /\ UNCHANGED <<libraries, stub_missing_functions, result, input, restarts,
                   dependencies, finalVars>>

\* encode: `if !missing.is_empty() { .. }`.
HandleMissing ==
    /\ pc = "missing"
    /\ IF Len(missing) = 0
       THEN /\ pc' = "duplicates"
            /\ UNCHANGED <<libraries, stub_missing_functions, result, restarts, passVars>>
       ELSE IF CanStub(missing, stub_missing_functions)
       THEN LET stubs == make_stubs_module(missing)
            IN  /\ stub_missing_functions' = FALSE
                /\ IF stubs.panic
                   THEN /\ Return("panic")
                        /\ UNCHANGED <<libraries, restarts, passVars>>
                   ELSE /\ Len(restarts) < MaxRestarts
                        /\ libraries' = Append(libraries,
                                               Library(StubsName, stubs.module, FALSE))
                        /\ restarts' = Append(restarts, "stub")
                        /\ FreshPass
                        /\ UNCHANGED result
       ELSE /\ Return("unresolved symbol(s)")
            /\ UNCHANGED <<libraries, stub_missing_functions, restarts, passVars>>
    /\ UNCHANGED <<input, finalVars>>

\* encode: `if !duplicates.is_empty() { bail!(..) }`.
HandleDuplicates ==
    /\ pc = "duplicates"
    /\ IF Len(duplicates) # 0
       THEN Return("duplicate symbol(s)")
       ELSE pc' = "dependencies" /\ UNCHANGED result
    /\ UNCHANGED <<libraries, stub_missing_functions, input, restarts,
                   passVars, finalVars>>

\* encode: find_dependencies(&metadata, &exporters)?
FindDependencies ==
    /\ pc = "dependencies"
    /\ LET d == find_dependencies(AllMetadata(libraries), resolved)
       IN  CASE d.status = "ok" ->
                    /\ dependencies' = d.dependencies
                    /\ pc' = "reachable"
                    /\ UNCHANGED result
             [] d.status = "err" ->
                    Return("unable to find") /\ UNCHANGED dependencies
             [] OTHER ->
                    Return("panic") /\ UNCHANGED dependencies
    /\ UNCHANGED <<libraries, stub_missing_functions, input, restarts,
                   function_exporters, resolved, missing, duplicates,
                   cabi_realloc_exporter, finalVars>>

\* encode: find_reachable, and the restart without the unreachable libraries.
PruneUnreachable ==
    /\ pc = "reachable"
    /\ LET reachable == find_reachable(AllMetadata(libraries), dependencies)
           unreachable == Names(libraries) \ reachable
       IN  IF unreachable # {}
           THEN /\ Len(restarts) < MaxRestarts
                /\ libraries' = SelectSeq(libraries, LAMBDA l : l.name \notin unreachable)
                /\ restarts' = Append(restarts, "prune")
                /\ FreshPass
           ELSE /\ pc' = "synth"
                /\ UNCHANGED <<libraries, restarts, passVars>>
    /\ UNCHANGED <<stub_missing_functions, result, input, finalVars>>

\* encode: the end of a pass that got as far as make_env_module; the init
\* module is made after the env module and the libraries went to the encoder.
Emit(topo, fx, env, init, args) ==
    /\ topo_sorted' = topo
    /\ function_exports' = fx
    /\ layout' = env
    /\ init_module' = IF env.status = "ok" THEN init ELSE <<>>
    /\ arguments' = IF env.status = "ok" THEN args ELSE <<>>
    /\ Return(IF env.status # "ok" THEN "panic"
              ELSE IF \E i \in 1..Len(args) : args[i].panics THEN "panic"
              ELSE IF init.status = "ok" THEN "component"
              ELSE IF init.status = "err" THEN "unable to find"
              ELSE "panic")

\* The env module as a build makes it; checked: the build has overflow
\* checks, and every addition that leaves the u32 range panics.
Built(env, checked) ==
    IF checked /\ env.wrapped THEN [env EXCEPT !.status = "panic"] ELSE env

\* encode: make_env_module's results go to make_init_module.
MakeModules(topo, fx, env, init) ==
    \E checked \in BOOLEAN :
        Emit(topo, fx, Built(env, checked), init,
             library_loop(topo, AllMetadata(libraries), resolved, {}, <<>>))

ModulesOf(topo, fx, env) ==
    MakeModules(topo, fx, env,
        make_init_module(AllMetadata(libraries), resolved, fx, env.dl_openables,
                         env.indirection_table_base))

\* encode: `env_function_exports(..)?`, then make_env_module.
ExportFunctions(topo, fx, imported) ==
    IF fx.status # "ok"
    THEN /\ topo_sorted' = topo
         /\ Return(IF fx.status = "err" THEN "unable to find" ELSE "panic")
         /\ UNCHANGED <<function_exports, layout, init_module, arguments>>
    ELSE ModulesOf(topo, fx.result,
                   make_env_module(AllMetadata(libraries), fx.result,
                                   cabi_realloc_exporter, imported))

\* encode: topo_sort, then the rest of the pass.
SortAndExport(topo, fe, imported) ==
    ExportFunctions(topo,
                    env_function_exports(AllMetadata(libraries), resolved, topo, fe),
                    imported)

\* encode: topo_sort, env_function_exports, make_env_module, and the calls
\* of the component encoder.
Synthesize ==
    /\ pc = "synth"
    /\ \E ord \in IterationOrders(dependencies) :
       \E fe \in FunctionExporterChoices(DOMAIN resolved) :
       \E imported \in MapOrders(import_map(AllMetadata(libraries))) :
          SortAndExport(topo_sort(Len(libraries), dependencies, ord), fe, imported)
    /\ UNCHANGED <<libraries, stub_missing_functions, input, restarts,
                   passVars>>

(***************************************************************************)
(* What the properties speak of                                            *)
(***************************************************************************)
\* A pass has resolved its symbols and its locals are still those of the pass.
AfterResolve ==
    \/ pc \in {"missing", "duplicates", "dependencies", "reachable", "synth"}
    \/ pc = "done" /\ result # "missing libraries"

\* The imports of a library list: env function imports, GOT.mem and GOT.func.
ImportsOf(libs) ==
    UNION {
        {[importer |-> libs[i].name, kind |-> "env",
          key |-> ExportKey(libs[i].module.env_imports[j].name,
                            libs[i].module.env_imports[j].ty)] :
            j \in 1..Len(libs[i].module.env_imports)}
        \cup
        {[importer |-> libs[i].name, kind |-> "mem",
          key |-> ExportKey(libs[i].module.memory_address_imports[j], OffsetType)] :
            j \in 1..Len(libs[i].module.memory_address_imports)}
        \cup
        {[importer |-> libs[i].name, kind |-> "table",
          key |-> ExportKey(libs[i].module.table_address_imports[j], F0)] :
            j \in 1..Len(libs[i].module.table_address_imports)}
        : i \in 1..Len(libs)}

\* The exports of a library list under one key, as (library index, export index).
ExportersOf(libs, key) ==
    UNION {{<<i, j>> : j \in {j \in 1..Len(libs[i].module.exports) :
                                 libs[i].module.exports[j].key = key}} :
           i \in 1..Len(libs)}

\* The key an import is matched under: its own, or for a GOT.func import the
\* function key of that name which the pass kept.
MatchKey(imp) ==
    IF imp.kind = "table" /\ imp.key.name \in DOMAIN function_exporters
    THEN function_exporters[imp.key.name]
    ELSE imp.key

InResolved(imp) ==
    /\ MatchKey(imp) \in DOMAIN resolved
    /\ imp.kind = "table" => imp.key.name \in DOMAIN function_exporters

InMissing(imp) ==
    /\ \E i \in 1..Len(missing) :
          missing[i].importer = imp.importer /\ missing[i].export.key = imp.key
    /\ imp.kind = "table" => imp.key.name \notin DOMAIN function_exporters

InDuplicates(imp) ==
    \E i \in 1..Len(duplicates) :
        duplicates[i].importer = imp.importer /\ duplicates[i].key = MatchKey(imp)

Next ==
    \/ \E call \in LibraryCalls : LinkerLibrary(call)
    \/ \E flag \in BOOLEAN : LinkerStubMissingFunctions(flag)
    \/ Encode
    \/ CheckNeededLibs
    \/ ResolveSymbols
    \/ HandleMissing
    \/ HandleDuplicates
    \/ FindDependencies
    \/ PruneUnreachable
    \/ Synthesize

Spec == Init /\ [][Next]_vars

C2_OneExporter ==
    result = "component" =>
        \A key \in DOMAIN resolved :
            Cardinality(ExportersOf(libraries, key)) = 1

(***************************************************************************)
(* C2: in the final pass of a successful encode every key of the resolved  *)
(* map other than cabi_realloc (i32 x 4 -> i32) is exported by exactly one *)
(* library of the final list, the one the map names; cabi_realloc is       *)
(* exported by at least one, and the map names the first in list order.    *)
(***************************************************************************)
C2_OneExporterButRealloc ==
    result = "component" =>
        \A key \in DOMAIN resolved :
            LET ex == ExportersOf(libraries, key)
            IN  /\ ex # {}
                /\ key # ReallocKey => Cardinality(ex) = 1
                /\ \E ij \in ex :
                      /\ \A kl \in ex : ij[1] <= kl[1]
                      /\ resolved[key].lib = libraries[ij[1]].name
                      /\ resolved[key].export.key = key

\* A component whose resolved map holds cabi_realloc, exported by two
\* libraries, and the link went through.
C2_Witness ==
    /\ pc = "done" /\ result = "component"
    /\ ReallocKey \in DOMAIN resolved
    /\ Cardinality(ExportersOf(libraries, ReallocKey)) = 2
(***************************************************************************)
(* C3: a link whose library list, as passed to encode, repeats a name      *)
(* produces no component.                                                  *)
(***************************************************************************)
C3_RepeatedNameFails ==
    result = "component" =>
        \A i, j \in 1..Len(input) : input[i].name = input[j].name => i = j

(***************************************************************************)
(* C4: a pass whose library list has a needed_libs entry that names no     *)
(* library of the list ends with the 'missing libraries' error before it   *)
(* resolves symbols, stubs or prunes: no later step of a pass sees such a  *)
(* list, and the failed pass has resolved nothing and changed no list.     *)
(***************************************************************************)
Dangling(libs) ==
    \E i \in 1..Len(libs) : \E k \in 1..Len(libs[i].module.needed_libs) :
        \A j \in 1..Len(libs) : libs[j].name # libs[i].module.needed_libs[k]

C4_MissingLibraries ==
    /\ pc \in {"resolve", "missing", "duplicates", "dependencies", "reachable",
               "synth"} => ~Dangling(libraries)
    /\ pc = "done" /\ Dangling(libraries) =>
          /\ result = "missing libraries"
          /\ DOMAIN resolved = {} /\ Len(missing) = 0 /\ Len(duplicates) = 0
          /\ DOMAIN dependencies = {}
    /\ result = "missing libraries" => Dangling(libraries)

\* The error raised in a pass after a restart, and for the input itself.
C4_Witness ==
    /\ pc = "done" /\ result = "missing libraries"
    /\ Dangling(libraries)
    /\ Len(libraries) > 1
(***************************************************************************)
(* C5: a pass whose missing set is not empty appends the non-dlopen        *)
(* library 'wit-component:stubs' and restarts if and only if every missing *)
(* symbol is a function and (stub_missing_functions is set or every        *)
(* missing symbol is weak); otherwise it fails with the unresolved-symbol  *)
(* error and leaves the library list as it was.                            *)
(***************************************************************************)
Stubbable ==
    /\ \A i \in 1..Len(missing) : missing[i].export.key.ty.kind = "Function"
    /\ \/ stub_missing_functions
       \/ \A i \in 1..Len(missing) : missing[i].export.flags % 2 = 1

StubAppended ==
    /\ Len(libraries') = Len(libraries) + 1
    /\ SubSeq(libraries', 1, Len(libraries)) = libraries
    /\ libraries'[Len(libraries')].name = "wit-component:stubs"
    /\ ~libraries'[Len(libraries')].dl_openable
    /\ pc' = "needed"

C5_StubOrFail ==
    [][pc = "missing" /\ Len(missing) > 0 =>
          IF Stubbable
          THEN StubAppended
          ELSE /\ pc' = "done" /\ result' = "unresolved symbol(s)"
               /\ libraries' = libraries]_vars

(***************************************************************************)
(* C6: once a pass has taken the stub-insertion path, no later pass of the *)
(* encode call ends with the unresolved-symbol error.                      *)
(***************************************************************************)
C6_StubbedStaysResolved ==
    (\E i \in 1..Len(restarts) : restarts[i] = "stub") =>
        result # "unresolved symbol(s)"

(***************************************************************************)
(* C7: the stub-insertion restart happens at most once in an encode call:  *)
(* after it stub_missing_functions stays false, the pass that follows it   *)
(* has an empty missing set, and 'wit-component:stubs' is not appended a   *)
(* second time.                                                            *)
(***************************************************************************)
C7_StubOnce ==
    /\ Cardinality({i \in 1..Len(restarts) : restarts[i] = "stub"}) <= 1
    /\ Cardinality({i \in 1..Len(libraries) :
                        libraries[i].name = "wit-component:stubs"}) <= 1
    /\ (\E i \in 1..Len(restarts) : restarts[i] = "stub") =>
          /\ ~stub_missing_functions
          /\ restarts[Len(restarts)] = "stub" => Len(missing) = 0

(***************************************************************************)
(* C8: an encode call restarts at most twice, once at most for stubs and   *)
(* once at most for pruning, so it runs at most three passes.              *)
(***************************************************************************)
C8_TwoRestarts ==
    /\ Len(restarts) <= 2
    /\ Cardinality({i \in 1..Len(restarts) : restarts[i] = "stub"}) <= 1
    /\ Cardinality({i \in 1..Len(restarts) : restarts[i] = "prune"}) <= 1
(***************************************************************************)
(* C9: in the pass that reaches module synthesis the library list is the   *)
(* list passed to encode (with the stub library, if the pass has one),     *)
(* kept in order and cut down to the libraries that are dl_openable or     *)
(* have component exports and the libraries those depend on, directly or   *)
(* not, by needed_libs or by an env function import.                       *)
(***************************************************************************)
\* The list the passes started from: the input, and the stub library if the
\* final pass has it.
Offered ==
    input \o SelectSeq(libraries, LAMBDA l : l.name = "wit-component:stubs")

\* Library i of libs needs library j: by name, or for an env function import
\* that j is the first to export.
Needs(libs, i, j) ==
    \/ \E k \in 1..Len(libs[i].module.needed_libs) :
          libs[i].module.needed_libs[k] = libs[j].name
    \/ \E k \in 1..Len(libs[i].module.env_imports) :
          LET ex == ExportersOf(libs, ExportKey(libs[i].module.env_imports[k].name,
                                               libs[i].module.env_imports[k].ty))
          IN  \E e \in ex : e[1] = j /\ \A d \in ex : j <= d[1]

RECURSIVE Closure(_, _)
Closure(libs, S) ==
    LET T == S \cup {j \in 1..Len(libs) : \E i \in S : Needs(libs, i, j)}
    IN  IF T = S THEN S ELSE Closure(libs, T)

Roots(libs) ==
    {i \in 1..Len(libs) :
        libs[i].dl_openable \/ libs[i].module.has_component_exports}

RECURSIVE Keep(_, _, _)
\* The elements of libs at the indexes in S, in order, from index i on.
Keep(libs, S, i) ==
    IF i > Len(libs) THEN <<>>
    ELSE (IF i \in S THEN <<libs[i]>> ELSE <<>>) \o Keep(libs, S, i + 1)

C9_ReachableOnly ==
    pc = "synth" =>
        libraries = Keep(Offered, Closure(Offered, Roots(Offered)), 1)
(***************************************************************************)
(* C10: in the layout make_env_module computes, the stack [0, STACK_SIZE), *)
(* the dlopen buffer and the libraries' [memory_base, memory_base +        *)
(* memory_size) are pairwise disjoint and all but the stack start at or    *)
(* above STACK_SIZE; in the table the dlopen function slots, the           *)
(* libraries' [table_base, table_base + table_size) and the indirection    *)
(* slots are pairwise disjoint.                                            *)
(***************************************************************************)
\* a <= b for u32 values.
U32Leq(a, b) == IF (a >= 0) = (b >= 0) THEN a <= b ELSE a >= 0

Region(base, size) == [base |-> base, size |-> size]

\* The region [base, base + size) ends at or before the address `at`.
EndsBy(r, at) == ~Wraps(r.base, r.size) /\ U32Leq(Add32(r.base, r.size), at)

Disjoint(r, q) ==
    r.size = 0 \/ q.size = 0 \/ EndsBy(r, q.base) \/ EndsBy(q, r.base)

PairwiseDisjoint(rs) ==
    \A i, j \in 1..Len(rs) : i # j => Disjoint(rs[i], rs[j])

MemoryRegions(l) ==
    <<Region(0, STACK_SIZE_BYTES),
      Region(l.dl_openables.memory_base, BufferLen(l.dl_openables.buffer))>>
    \o [i \in 1..Len(l.bases) |->
            Region(l.bases[i].memory_base, l.bases[i].memory_size)]

TableRegions(l) ==
    <<Region(l.dl_openables.table_base, l.dl_openables.function_count),
      Region(l.indirection_table_base, Len(l.thunks))>>
    \o [i \in 1..Len(l.bases) |->
            Region(l.bases[i].table_base, l.bases[i].table_size)]

C10_RegionsDisjoint ==
    result = "component" =>
        /\ PairwiseDisjoint(MemoryRegions(layout))
        /\ PairwiseDisjoint(TableRegions(layout))
        /\ \A i \in 2..Len(MemoryRegions(layout)) :
              U32Leq(STACK_SIZE_BYTES, MemoryRegions(layout)[i].base)
(***************************************************************************)
(* What the properties say of the env module: a global export refers to    *)
(* the module's global index space, where the imported globals come first  *)
(* and the defined ones follow.                                            *)
(***************************************************************************)
\* The number of globals the env module imports.
GlobalImportCount(l) ==
    Cardinality({i \in 1..Len(l.imported) : ~IsFunction(l.imported[i].import.ty)})

\* The global at an index of the index space.
EnvGlobal(l, index) ==
    IF index < GlobalImportCount(l)
    THEN [imported |-> TRUE, value |-> 0, mutable |-> FALSE]
    ELSE [imported |-> FALSE,
          value |-> l.globals[index - GlobalImportCount(l) + 1].value,
          mutable |-> l.globals[index - GlobalImportCount(l) + 1].mutable]

HasGlobalExport(l, name) ==
    \E i \in 1..Len(l.exports) : l.exports[i].name = name /\ l.exports[i].kind = "Global"

\* The global the env module exports under a name.
ExportedGlobal(l, name) ==
    EnvGlobal(l, l.exports[CHOOSE i \in 1..Len(l.exports) :
                               l.exports[i].name = name /\ l.exports[i].kind = "Global"].index)

\* The value v is a multiple of 2^log2.
MultipleOfPow2(v, log2) == v % Pow2(log2) = 0

(***************************************************************************)
(* C11: in the env module of a component, for every library of the final   *)
(* list the exported global '{lib}:memory_base' is a multiple of           *)
(* 2^memory_alignment and the exported global '{lib}:table_base' is a      *)
(* multiple of 2^table_alignment.                                          *)
(***************************************************************************)
C11_BasesAligned ==
    result = "component" =>
        \A i \in 1..Len(libraries) :
            /\ HasGlobalExport(layout, libraries[i].name \o ":memory_base")
            /\ HasGlobalExport(layout, libraries[i].name \o ":table_base")
            /\ ~ExportedGlobal(layout, libraries[i].name \o ":memory_base").imported
            /\ ~ExportedGlobal(layout, libraries[i].name \o ":table_base").imported
            /\ MultipleOfPow2(
                   ExportedGlobal(layout, libraries[i].name \o ":memory_base").value,
                   libraries[i].module.mem_info.memory_alignment)
            /\ MultipleOfPow2(
                   ExportedGlobal(layout, libraries[i].name \o ":table_base").value,
                   libraries[i].module.mem_info.table_alignment)
(***************************************************************************)
(* C12: in the env module of a component __heap_base is a multiple of 16   *)
(* and at least the end of the last library's memory region, __heap_end is *)
(* a multiple of 65536 with __heap_base <= __heap_end < __heap_base +      *)
(* 65536, and the memory's minimum page count is __heap_end / 65536.       *)
(***************************************************************************)
\* The memory region of the last library of the layout.
LastRegion(l) ==
    Region(l.bases[Len(l.bases)].memory_base, l.bases[Len(l.bases)].memory_size)

C12_HeapBounds ==
    result = "component" =>
        /\ HasGlobalExport(layout, "__heap_base")
        /\ HasGlobalExport(layout, "__heap_end")
        /\ ~ExportedGlobal(layout, "__heap_base").imported
        /\ ~ExportedGlobal(layout, "__heap_end").imported
        /\ ExportedGlobal(layout, "__heap_base").value % 16 = 0
        /\ Len(layout.bases) > 0 =>
               EndsBy(LastRegion(layout), ExportedGlobal(layout, "__heap_base").value)
        /\ ExportedGlobal(layout, "__heap_end").value % 65536 = 0
        /\ ExportedGlobal(layout, "__heap_base").value >= 0
        /\ ExportedGlobal(layout, "__heap_base").value
              <= ExportedGlobal(layout, "__heap_end").value
        /\ ExportedGlobal(layout, "__heap_end").value - 65536
              < ExportedGlobal(layout, "__heap_base").value
        /\ layout.memory_minimum * 65536 = ExportedGlobal(layout, "__heap_end").value
(***************************************************************************)
(* C13: two encode runs on identical inputs produce identical results: in  *)
(* the pass that synthesizes the modules, the topological order, the       *)
(* indirection list, the order of the env module's exports and every       *)
(* assigned offset are the same whatever the iteration order of the        *)
(* hash-based sets and maps is.                                            *)
(***************************************************************************)
\* What a run with these iteration orders computes from the pass's state.
LayoutOutcome(env) ==
    [exports |-> env.exports, bases |-> env.bases, globals |-> env.globals,
     thunks |-> env.thunks, indirection_table_base |-> env.indirection_table_base]

ExportOutcome(topo, fx, imported) ==
    IF fx.status # "ok"
    THEN [topo_sorted |-> topo, function_exports |-> <<>>, layout |-> <<>>]
    ELSE [topo_sorted |-> topo, function_exports |-> fx.result,
          layout |-> LayoutOutcome(
                         make_env_module(AllMetadata(libraries), fx.result,
                                         cabi_realloc_exporter, imported))]

RunOutcome(topo, fe, imported) ==
    ExportOutcome(topo,
                  env_function_exports(AllMetadata(libraries), resolved, topo, fe),
                  imported)

RunOutcomes ==
    {RunOutcome(topo_sort(Len(libraries), dependencies, ord), fe, imported) :
        ord \in IterationOrders(dependencies),
        fe \in FunctionExporterChoices(DOMAIN resolved),
        imported \in MapOrders(import_map(AllMetadata(libraries)))}

C13_Deterministic ==
    pc = "synth" => Cardinality(RunOutcomes) = 1
(***************************************************************************)
(* C14: in the buffer DlOpenables::new builds, read as the runtime reads   *)
(* it from the root descriptor at libraries_address, the library records   *)
(* are in ascending order of library name and the symbol records of every  *)
(* library are in ascending order of symbol name; the records are those of *)
(* the dlopen-able libraries and of their exports.                         *)
(***************************************************************************)
\* The item of the buffer that starts at an address.
ItemAt(dl, address) ==
    dl.buffer[CHOOSE i \in 1..Len(dl.buffer) :
                  dl.memory_base + BufferLen(SubSeq(dl.buffer, 1, i - 1)) = address]

\* The name a record points to: name_len at `record`, name_addr after it.
NameOf(dl, record) ==
    IF Len(ItemAt(dl, ItemAt(dl, record + 4).value).text) = ItemAt(dl, record).value
    THEN ItemAt(dl, ItemAt(dl, record + 4).value).text
    ELSE ""

\* The library records { name_len, name_addr, symbol_count, symbols_addr }.
LibraryRecords(dl) ==
    [k \in 1..ItemAt(dl, dl.libraries_address).value |->
        ItemAt(dl, dl.libraries_address + 4).value + 16 * (k - 1)]

\* The symbol records { name_len, name_addr, value } of a library record.
SymbolRecords(dl, record) ==
    [j \in 1..ItemAt(dl, record + 8).value |->
        ItemAt(dl, record + 12).value + 12 * (j - 1)]

\* The names are in ascending order; strict: no name comes twice.
Ascending(names, strict) ==
    \A i, j \in 1..Len(names) :
        i < j => /\ NameRank(names[i]) <= NameRank(names[j])
                 /\ strict => names[i] # names[j]

DlLibraries(libs) == SelectSeq(libs, LAMBDA l : l.dl_openable)

C14_TablesSorted ==
    result = "component" =>
        /\ Ascending([k \in 1..Len(LibraryRecords(layout.dl_openables)) |->
                         NameOf(layout.dl_openables,
                                LibraryRecords(layout.dl_openables)[k])], FALSE)
        /\ Len(LibraryRecords(layout.dl_openables)) = Len(DlLibraries(libraries))
        /\ \A l \in SeqToSet(DlLibraries(libraries)) :
              \E k \in 1..Len(LibraryRecords(layout.dl_openables)) :
                 /\ NameOf(layout.dl_openables,
                           LibraryRecords(layout.dl_openables)[k]) = l.name
                 /\ {NameOf(layout.dl_openables, r) :
                        r \in SeqToSet(SymbolRecords(layout.dl_openables,
                                 LibraryRecords(layout.dl_openables)[k]))}
                    = {l.module.exports[j].key.name : j \in 1..Len(l.module.exports)}
        /\ \A k \in 1..Len(LibraryRecords(layout.dl_openables)) :
              Ascending([j \in 1..Len(SymbolRecords(layout.dl_openables,
                                         LibraryRecords(layout.dl_openables)[k])) |->
                            NameOf(layout.dl_openables,
                                   SymbolRecords(layout.dl_openables,
                                       LibraryRecords(layout.dl_openables)[k])[j])],
                        TRUE)

\* A component with two dlopen-able libraries given in descending order of
\* name, one of them with its exports in descending order of name.
C14_Witness ==
    /\ pc = "done" /\ result = "component"
    /\ \E i, j \in 1..Len(libraries) :
          /\ i < j /\ libraries[i].dl_openable /\ libraries[j].dl_openable
          /\ NameRank(libraries[i].name) > NameRank(libraries[j].name)
    /\ \E i \in 1..Len(libraries) :
          /\ libraries[i].dl_openable
          /\ Len(libraries[i].module.exports) = 2
          /\ NameRank(libraries[i].module.exports[1].key.name)
                > NameRank(libraries[i].module.exports[2].key.name)

(***************************************************************************)
(* The indirection table                                                   *)
(***************************************************************************)
\* The function exports of the env module under a name.
FuncExports(l, name) ==
    {i \in 1..Len(l.exports) : l.exports[i].name = name /\ l.exports[i].kind = "Func"}

\* The thunks of the env module at a function index.
ThunksAt(l, index) == {t \in 1..Len(l.thunks) : l.thunks[t].function = index}

\* The env module exports the name of entry i as a function it defines, of the
\* entry's signature, whose body calls through table slot
\* indirection_table_base + i (i from zero).
ThunkOfEntry(l, fx, i) ==
    /\ Cardinality(FuncExports(l, fx[i].name)) = 1
    /\ \A e \in FuncExports(l, fx[i].name) :
          /\ Cardinality(ThunksAt(l, l.exports[e].index)) = 1
          /\ \A t \in ThunksAt(l, l.exports[e].index) :
                /\ l.thunks[t].ty = fx[i].ty
                /\ l.thunks[t].slot = l.indirection_table_base + (i - 1)

\* The init module's second element segment starts at indirection_table_base
\* and its i-th function (i from zero) is the import of the entry's name from
\* the entry's exporter, under the entry's signature.
ElementOfEntry(l, im, libs, fx, i) ==
    /\ im.elements[2].offset = l.indirection_table_base
    /\ Len(im.elements[2].functions) = Len(fx)
    /\ im.elements[2].functions[i] + 1 \in 1..Len(im.functions)
    /\ LET import == im.functions[im.elements[2].functions[i] + 1]
       IN  /\ import.module = libs[fx[i].exporter].name
           /\ import.name = fx[i].name
           /\ im.types[import.ty + 1] = fx[i].ty

(***************************************************************************)
(* C15: in a component, for every entry i of the indirection list (name,   *)
(* signature, exporter) the env module exports under the name a function   *)
(* of that signature whose body is a call_indirect through table slot      *)
(* indirection_table_base + i, and the init module's element segment       *)
(* stores at that same slot the function it imports under the name from    *)
(* the exporter library.                                                   *)
(***************************************************************************)
C15_IndirectionSlots ==
    result = "component" =>
        \A i \in 1..Len(function_exports) :
            /\ ThunkOfEntry(layout, function_exports, i)
            /\ ElementOfEntry(layout, init_module, libraries, function_exports, i)

\* A component with two entries of different names, the second one reached
\* through the slot after indirection_table_base.
C15_Witness ==
    /\ result = "component"
    /\ Len(function_exports) >= 2
    /\ function_exports[1].name # function_exports[2].name
    /\ ThunkOfEntry(layout, function_exports, 2)
    /\ ElementOfEntry(layout, init_module, libraries, function_exports, 2)

(***************************************************************************)
(* C16: in a component with no dlopen-able library and memory_alignment 0  *)
(* in every library, the exported '{lib}:memory_base' of the first library *)
(* is STACK_SIZE (1048576) and that of each following library is the       *)
(* previous library's memory_base plus its memory_size.                    *)
(***************************************************************************)
\* No library is dlopen-able and every memory_alignment is 0.
PlainLayout(libs) ==
    \A i \in 1..Len(libs) :
        ~libs[i].dl_openable /\ libs[i].module.mem_info.memory_alignment = 0

MemoryBase(l, lib) == ExportedGlobal(l, lib.name \o ":memory_base").value

C16_SequentialBases ==
    (result = "component" /\ PlainLayout(libraries)) =>
        \A i \in 1..Len(libraries) :
            /\ HasGlobalExport(layout, libraries[i].name \o ":memory_base")
            /\ i = 1 => MemoryBase(layout, libraries[1]) = STACK_SIZE_BYTES
            /\ i > 1 =>
                  /\ ~Wraps(MemoryBase(layout, libraries[i - 1]),
                            libraries[i - 1].module.mem_info.memory_size)
                  /\ MemoryBase(layout, libraries[i])
                        = Add32(MemoryBase(layout, libraries[i - 1]),
                                libraries[i - 1].module.mem_info.memory_size)

(***************************************************************************)
(* Mutual recursion between two libraries                                  *)
(***************************************************************************)
\* The names library x imports from env as functions that library y exports
\* under the same signature.
CallsInto(x, y) ==
    {x.module.env_imports[i].name : i \in
        {i \in 1..Len(x.module.env_imports) :
            \E j \in 1..Len(y.module.exports) :
                /\ y.module.exports[j].key.name = x.module.env_imports[i].name
                /\ y.module.exports[j].key.ty = x.module.env_imports[i].ty}}

\* Two libraries, both with component exports and no GOT.func imports, each
\* importing from env a function of the other and none of its own.
MutualPair(libs) ==
    /\ Len(libs) = 2
    /\ \A i \in 1..2 :
          /\ libs[i].module.has_component_exports
          /\ libs[i].module.table_address_imports = <<>>
          /\ CallsInto(libs[i], libs[i]) = {}
    /\ CallsInto(libs[1], libs[2]) # {}
    /\ CallsInto(libs[2], libs[1]) # {}

\* The indirection list has an entry of this name and exporter.
HasEntry(fx, name, exporter) ==
    \E i \in 1..Len(fx) : fx[i].name = name /\ fx[i].exporter = exporter

(***************************************************************************)
(* C17 as stated: for libA (first, exports f, imports g from env) and libB *)
(* (exports g, imports f from env), both with component exports and no     *)
(* GOT.func imports, the topological order is [libA, libB] and the         *)
(* indirection list has an entry for f (exporter libA) and an entry for g  *)
(* (exporter libB), so the env module exports thunks for both.             *)
(***************************************************************************)
C17_BothThunked ==
    (result = "component" /\ MutualPair(libraries)) =>
        /\ topo_sorted = <<1, 2>>
        /\ \A f \in CallsInto(libraries[2], libraries[1]) :
              HasEntry(function_exports, f, 1) /\ FuncExports(layout, f) # {}
        /\ \A g \in CallsInto(libraries[1], libraries[2]) :
              HasEntry(function_exports, g, 2) /\ FuncExports(layout, g) # {}

(***************************************************************************)
(* C17 amended: for the same two libraries the topological order is        *)
(* [libA, libB] and the indirection list has an entry for g (exporter      *)
(* libB), which libA imports, and no entry for f: libB is instantiated     *)
(* after libA and imports f from it directly, so the env module exports a  *)
(* thunk for g only.                                                       *)
(***************************************************************************)
C17_OnlyForwardThunk ==
    (result = "component" /\ MutualPair(libraries)) =>
        /\ topo_sorted = <<1, 2>>
        /\ \A g \in CallsInto(libraries[1], libraries[2]) :
              HasEntry(function_exports, g, 2) /\ FuncExports(layout, g) # {}
        /\ \A f \in CallsInto(libraries[2], libraries[1]) :
              /\ \A i \in 1..Len(function_exports) : function_exports[i].name # f
              /\ FuncExports(layout, f) = {}
        /\ \A i \in 1..Len(function_exports) :
              /\ function_exports[i].exporter = 2
              /\ function_exports[i].name \in CallsInto(libraries[1], libraries[2])

\* The component of such a pair, with its one entry.
C17_Witness ==
    /\ result = "component"
    /\ MutualPair(libraries)
    /\ Len(function_exports) = 1
    /\ function_exports[1].exporter = 2
    /\ Len(layout.thunks) = 1

(***************************************************************************)
(* topo_sort on its own: TopoSpec draws the dependency map from the        *)
(* transitively closed maps over 1..TopoCount and applies topo_sort with   *)
(* an iteration order for every set of the map.                            *)
(***************************************************************************)
\* deps(j) is a subset of deps(i) whenever j is in deps(i).
Closed(deps) ==
    \A i \in DOMAIN deps : \A j \in deps[i] : Get(deps, j) \subseteq deps[i]

ClosedMaps(n) == {deps \in [1..n -> SUBSET (1..n)] : Closed(deps)}

TopoInit ==
    /\ libraries = <<>>
    /\ stub_missing_functions = FALSE
    /\ pc = "closed"
    /\ result = "none"
    /\ input = <<>>
    /\ restarts = <<>>
    /\ function_exporters = <<>>
    /\ resolved = <<>>
    /\ missing = <<>>
    /\ duplicates = <<>>
    /\ cabi_realloc_exporter = None
    /\ dependencies \in ClosedMaps(TopoCount)
    /\ topo_sorted = <<>>
    /\ function_exports = <<>>
    /\ layout = <<>>
    /\ init_module = <<>>
    /\ arguments = <<>>

TopoSort ==
    /\ pc = "closed"
    /\ \E ord \in IterationOrders(dependencies) :
          topo_sorted' = topo_sort(TopoCount, dependencies, ord)
    /\ pc' = "sorted"
    /\ UNCHANGED <<libraries, stub_missing_functions, result, input, restarts,
                   passVars, function_exports, layout, init_module, arguments>>

TopoNext == TopoSort

TopoSpec == TopoInit /\ [][TopoNext]_vars

\* The position of an index in the order.
PositionIn(sorted, x) == CHOOSE i \in 1..Len(sorted) : sorted[i] = x

(***************************************************************************)
(* C18: for a transitively closed dependency map over n libraries,         *)
(* topo_sort returns every index exactly once, and v comes before u        *)
(* whenever u depends on v and v does not depend on u, whatever order the  *)
(* dependency sets are iterated in.                                        *)
(***************************************************************************)
C18_TopoOrder ==
    pc = "sorted" =>
        /\ Len(topo_sorted) = TopoCount
        /\ SeqToSet(topo_sorted) = 1..TopoCount
        /\ \A u, v \in 1..TopoCount :
              (v \in dependencies[u] /\ u \notin dependencies[v]) =>
                  PositionIn(topo_sorted, v) < PositionIn(topo_sorted, u)

\* An order of a map with a cycle between two libraries that both depend on
\* a third one, which is not the first index.
C18_Witness ==
    /\ pc = "sorted"
    /\ \E u, v, w \in 1..TopoCount :
          /\ u # v /\ v # w /\ u # w /\ w # 1
          /\ v \in dependencies[u] /\ u \in dependencies[v]
          /\ w \in dependencies[u] /\ u \notin dependencies[w]
          /\ PositionIn(topo_sorted, w) < PositionIn(topo_sorted, u)
          /\ PositionIn(topo_sorted, w) < PositionIn(topo_sorted, v)

(***************************************************************************)
(* Reachability over the direct dependencies                               *)
(***************************************************************************)
\* The libraries a library depends on directly: those it names in needed_libs
\* and the exporters of its env function imports.
DirectOf(libs, exporters, i) ==
    {j \in 1..Len(libs) :
        \/ libs[j].name \in SeqToSet(libs[i].module.needed_libs)
        \/ \E k \in 1..Len(libs[i].module.env_imports) :
              LET found == find_function_exporter(libs[i].module.env_imports[k].name,
                                                  libs[i].module.env_imports[k].ty,
                                                  exporters)
              IN  found # None /\ found[1].lib = libs[j].name}

\* The least set that has S and the direct dependencies of its members.
RECURSIVE DependencyClosure(_, _, _)
DependencyClosure(libs, exporters, S) ==
    LET more == S \cup UNION {DirectOf(libs, exporters, j) : j \in S}
    IN  IF more = S THEN S ELSE DependencyClosure(libs, exporters, more)

\* The libraries reachable from library i by one or more edges.
ReachableFrom(libs, exporters, i) ==
    DependencyClosure(libs, exporters, DirectOf(libs, exporters, i))

(***************************************************************************)
(* C19: the map find_dependencies returns gives, for every library index   *)
(* i, exactly the set of indices reachable from i by one or more direct    *)
(* dependency edges (needed_libs and the exporters of env function         *)
(* imports), and is a fixed point: deps(j) is a subset of deps(i) for      *)
(* every j in deps(i).                                                     *)
(***************************************************************************)
C19_ExactlyReachable ==
    pc \in {"reachable", "synth"} =>
        /\ \A i \in 1..Len(libraries) :
              Get(dependencies, i) = ReachableFrom(libraries, resolved, i)
        /\ Closed(dependencies)

(***************************************************************************)
(* Which env imports get an indirection entry                              *)
(***************************************************************************)
\* encode got as far as make_env_module: function_exports is the list
\* env_function_exports returned.
Exported == pc = "done" /\ layout # <<>>

\* The names some library imports as GOT.func.
TableNames(libs) ==
    UNION {SeqToSet(libs[i].module.table_address_imports) : i \in 1..Len(libs)}

\* The env function imports of the libraries, each with the index of its
\* importer and the name of its exporter.
EnvImportsOf(libs, exporters) ==
    UNION {{[importer |-> i, name |-> libs[i].module.env_imports[k].name, ty |-> libs[i].module.env_imports[k].ty, exporter |-> find_function_exporter(libs[i].module.env_imports[k].name, libs[i].module.env_imports[k].ty, exporters)[1].lib] : k \in 1..Len(libs[i].module.env_imports)} : i \in 1..Len(libs)}

\* The entry e stands for the import m.
EntryOf(libs, e, m) ==
    e.name = m.name /\ e.ty = m.ty /\ libs[e.exporter].name = m.exporter

(***************************************************************************)
(* C20 as stated: every entry of the indirection list is of a name some    *)
(* library imports as GOT.func, or stands for an env function import whose *)
(* exporter comes later in the topological order than the importer; no     *)
(* entry is there for an import whose exporter is the importer itself or   *)
(* comes earlier.                                                          *)
(***************************************************************************)
C20_OnlyLaterExporters ==
    Exported =>
        \A i \in 1..Len(function_exports) :
            \/ function_exports[i].name \in TableNames(libraries)
            \/ \E m \in EnvImportsOf(libraries, resolved) :
                  /\ EntryOf(libraries, function_exports[i], m)
                  /\ PositionIn(topo_sorted, m.importer)
                        < PositionIn(topo_sorted, function_exports[i].exporter)

(***************************************************************************)
(* C20 amended: every entry of the indirection list is of a name some      *)
(* library imports as GOT.func, or stands for an env function import whose *)
(* exporter is the importer itself or comes later in the topological order *)
(* (no entry stands only for imports whose exporter comes earlier), and    *)
(* every env function import whose exporter is the importer itself or      *)
(* comes later has an entry of its name.                                   *)
(***************************************************************************)
C20_SelfOrLaterExporters ==
    Exported =>
        /\ \A i \in 1..Len(function_exports) :
              \/ function_exports[i].name \in TableNames(libraries)
              \/ \E m \in EnvImportsOf(libraries, resolved) :
                    /\ EntryOf(libraries, function_exports[i], m)
                    /\ PositionIn(topo_sorted, m.importer)
                          <= PositionIn(topo_sorted, function_exports[i].exporter)
        /\ \A m \in EnvImportsOf(libraries, resolved) :
              \A x \in 1..Len(libraries) :
                  (/\ libraries[x].name = m.exporter
                   /\ \A y \in 1..Len(libraries) : libraries[y].name = m.exporter => y <= x
                   /\ PositionIn(topo_sorted, m.importer) <= PositionIn(topo_sorted, x))
                  => \E i \in 1..Len(function_exports) : function_exports[i].name = m.name

\* A component where a library imports from env a function it exports
\* itself, with the entry of that import, and another library imports the
\* same function after it.
C20_Witness ==
    /\ result = "component"
    /\ \E m \in EnvImportsOf(libraries, resolved) :
          /\ libraries[m.importer].name = m.exporter
          /\ m.name \notin TableNames(libraries)
          /\ \E i \in 1..Len(function_exports) :
                /\ EntryOf(libraries, function_exports[i], m)
                /\ function_exports[i].exporter = m.importer
          /\ \E n \in EnvImportsOf(libraries, resolved) :
                /\ n.name = m.name /\ n.importer # m.importer
                /\ PositionIn(topo_sorted, m.importer) < PositionIn(topo_sorted, n.importer)

(***************************************************************************)
(* The env instance arguments of a library                                 *)
(***************************************************************************)
\* The names of the libraries registered before the p-th encoder.library call.
RegisteredBefore(args, p) == {args[q].library : q \in 1..(p - 1)}

\* The items of the p-th call's env instance that stand for env imports.
FuncItems(args, p) == {k \in 1..Len(args[p].env) : args[p].env[k].kind = "Func"}

\* The name of the library that exports the function of an item of the
\* library of the p-th call.
ExporterOfItem(libs, exporters, order, p, item) ==
    LET imports == libs[order[p]].module.env_imports
        k == CHOOSE k \in 1..Len(imports) : imports[k].name = item.alias
    IN  find_function_exporter(imports[k].name, imports[k].ty, exporters)[1].lib

\* Every env import of the library of the p-th call has its item.
ItemsForImports(libs, order, args, p) ==
    /\ args[p].library = libs[order[p]].name
    /\ {args[p].env[k].alias : k \in FuncItems(args, p)}
         = {libs[order[p]].module.env_imports[k].name :
                k \in 1..Len(libs[order[p]].module.env_imports)}

(***************************************************************************)
(* C21 as stated: in the env instance arguments of a library each env      *)
(* function import points to Main if the library that exports the function *)
(* has been registered earlier in topological order, and to the exporting  *)
(* library otherwise.                                                      *)
(***************************************************************************)
C21_MainWhenRegistered ==
    result = "component" =>
        \A p \in 1..Len(arguments) :
            /\ ItemsForImports(libraries, topo_sorted, arguments, p)
            /\ \A k \in FuncItems(arguments, p) :
                  arguments[p].env[k].which
                    = IF ExporterOfItem(libraries, resolved, topo_sorted, p, arguments[p].env[k])
                            \in RegisteredBefore(arguments, p)
                      THEN Main
                      ELSE Adapter(ExporterOfItem(libraries, resolved, topo_sorted, p, arguments[p].env[k]))

(***************************************************************************)
(* C21 amended: in the env instance arguments of a library each env        *)
(* function import points to the exporting library if a library of that    *)
(* name has been registered earlier in topological order, and to Main (the *)
(* env module, whose thunk covers the cycle) otherwise.                    *)
(***************************************************************************)
C21_LibraryWhenRegistered ==
    result = "component" =>
        /\ Len(arguments) = Len(topo_sorted)
        /\ \A p \in 1..Len(arguments) :
              /\ ItemsForImports(libraries, topo_sorted, arguments, p)
              /\ \A k \in FuncItems(arguments, p) :
                    arguments[p].env[k].which
                      = IF ExporterOfItem(libraries, resolved, topo_sorted, p, arguments[p].env[k])
                              \in RegisteredBefore(arguments, p)
                        THEN Adapter(ExporterOfItem(libraries, resolved, topo_sorted, p, arguments[p].env[k]))
                        ELSE Main

\* A component where one library's import points to Main and a later
\* library's import points to the library registered before it.
C21_Witness ==
    /\ result = "component"
    /\ \E p, q \in 1..Len(arguments) :
          /\ p < q
          /\ \E k \in FuncItems(arguments, p) : arguments[p].env[k].which = Main
          /\ \E k \in FuncItems(arguments, q) :
                arguments[q].env[k].which = Adapter(arguments[p].library)

(***************************************************************************)
(* The start function of the init module                                   *)
(***************************************************************************)
\* The phase an instruction of the start function ends a step of: 1 a
\* dlopen fix-up store, 2 a memory-address import store, 3 a call of
\* __wasm_apply_data_relocs, 4 of __wasm_call_ctors, 5 of
\* __wasm_set_libraries; 0 for the instructions that push operands.
PhaseOf(im, ins) ==
    IF ins.op = "i32.store" THEN 1
    ELSE IF ins.op = "global.set" THEN 2
    ELSE IF ins.op # "call" THEN 0
    ELSE IF im.functions[ins.arg + 1].name = "__wasm_apply_data_relocs" THEN 3
    ELSE IF im.functions[ins.arg + 1].name = "__wasm_call_ctors" THEN 4
    ELSE IF im.functions[ins.arg + 1].name = "__wasm_set_libraries" THEN 5
    ELSE 0

(***************************************************************************)
(* C22: in the start function of a component's init module every dlopen    *)
(* fix-up store comes before every memory-address import store, these      *)
(* before every __wasm_apply_data_relocs call, these before every          *)
(* __wasm_call_ctors call, and these before every __wasm_set_libraries     *)
(* call.                                                                   *)
(***************************************************************************)
C22_FivePhases ==
    result = "component" =>
        \A i, j \in 1..Len(init_module.start) :
            (/\ i < j
             /\ PhaseOf(init_module, init_module.start[i]) > 0
             /\ PhaseOf(init_module, init_module.start[j]) > 0)
            => PhaseOf(init_module, init_module.start[i])
                 <= PhaseOf(init_module, init_module.start[j])

(***************************************************************************)
(* The mutability of the globals the env module defines                    *)
(***************************************************************************)
\* The exports add_global_export made: the global exports that are not the
\* re-export of a raw import.
DefinedGlobalExports(l) ==
    {i \in 1..Len(l.exports) :
        /\ l.exports[i].kind = "Global"
        /\ \A k \in 1..Len(l.imported) :
              l.exports[i].name # l.imported[k].import.module \o ":" \o l.imported[k].import.name}

\* The global add_global_export defined together with an export.
DefinedWith(l, i) == l.globals[l.exports[i].index + 1]

\* The name is '{lib}:memory_base' or '{lib}:table_base' of a library.
IsBaseName(libs, name) ==
    \E i \in 1..Len(libs) :
        name \in {libs[i].name \o ":memory_base", libs[i].name \o ":table_base"}

FunctionExportsNamed(libs, name) ==
    UNION {{<<i, j>> : j \in {j \in 1..Len(libs[i].module.exports) :
                                 /\ libs[i].module.exports[j].key.name = name
                                 /\ IsFunction(libs[i].module.exports[j].key.ty)}} :
           i \in 1..Len(libs)}

\* The pass reported a duplicate for a library's import of a function name.
DuplicateReported(importer, name) ==
    \E i \in 1..Len(duplicates) :
        /\ duplicates[i].importer = importer
        /\ duplicates[i].key.name = name
        /\ IsFunction(duplicates[i].key.ty)

(***************************************************************************)
(* C24: for a GOT.func import of name s, resolve_symbols reports a         *)
(* duplicate whenever two or more function exports named s exist across    *)
(* the libraries, of the same or of different signatures, and reports none *)
(* when exactly one exists.                                                *)
(***************************************************************************)
C24_DuplicateByName ==
    AfterResolve =>
        \A imp \in ImportsOf(libraries) :
            imp.kind = "table" =>
                /\ Cardinality(FunctionExportsNamed(libraries, imp.key.name)) >= 2
                      => DuplicateReported(imp.importer, imp.key.name)
                /\ Cardinality(FunctionExportsNamed(libraries, imp.key.name)) = 1
                      => (~DuplicateReported(imp.importer, imp.key.name) /\ InResolved(imp))

\* encode is about to build the stub module from the pass's missing list.
StubsBuilt ==
    /\ pc = "missing"
    /\ Len(missing) # 0
    /\ CanStub(missing, stub_missing_functions)

\* The distinct names of the missing imports.
MissingNames == {missing[i].export.key.name : i \in 1..Len(missing)}

(***************************************************************************)
(* C25: the stub module built from the missing list has exactly one        *)
(* exported function per distinct missing name, with a signature recorded  *)
(* at an import site, and no export name twice: it passes validation.      *)
(***************************************************************************)
C25_OneStubPerName ==
    StubsBuilt =>
        LET stubs == make_stubs_module(missing)
            exports == stubs.module.exports
        IN  /\ ~stubs.panic
            /\ \A n \in MissingNames :
                   Cardinality({j \in 1..Len(exports) : exports[j].key.name = n}) = 1
            /\ \A j \in 1..Len(exports) :
                   \E i \in 1..Len(missing) : exports[j].key = missing[i].export.key

(***************************************************************************)
(* C26: every env function import that encode wires to Main in a library's *)
(* env instance arguments has an entry of its name in the indirection      *)
(* list, and the env module exports a thunk of that name.                  *)
(***************************************************************************)
C26_MainAliasExported ==
    result = "component" =>
        \A p \in 1..Len(arguments) :
            \A k \in FuncItems(arguments, p) :
                arguments[p].env[k].which = Main =>
                    /\ \E i \in 1..Len(function_exports) :
                          /\ function_exports[i].name = arguments[p].env[k].name
                          /\ ThunkOfEntry(layout, function_exports, i)
                    /\ arguments[p].env[k].name = arguments[p].env[k].alias

\* A component where a library's env import is wired to Main, and another
\* library's env import to the library that exports it.
C26_Witness ==
    /\ result = "component"
    /\ \E p \in 1..Len(arguments) :
          \E k \in FuncItems(arguments, p) : arguments[p].env[k].which = Main
    /\ \E p \in 1..Len(arguments) :
          \E k \in FuncItems(arguments, p) : arguments[p].env[k].which # Main

\* The position, among the globals the env module defines, of the global
\* that the add_global_export call of export i defined (from zero).
DefinedPosition(l, i) == Cardinality({j \in DefinedGlobalExports(l) : j < i})

(***************************************************************************)
(* C27: every named global export add_global_export makes in the env       *)
(* module refers, in the module's global index space (imported globals     *)
(* first), to the global that was defined with that export's value, also   *)
(* when libraries have raw imports of global type.                         *)
(***************************************************************************)
C27_GlobalExportIndex ==
    result = "component" =>
        \A i \in DefinedGlobalExports(layout) :
            /\ layout.exports[i].index
                 = GlobalImportCount(layout) + DefinedPosition(layout, i)
            /\ ~EnvGlobal(layout, layout.exports[i].index).imported

\* The table slots an active element segment of the init module fills.
ElementRegion(im, k) == Region(im.elements[k].offset, Len(im.elements[k].functions))

\* The bytes the active data segment of the init module fills.
DataRegion(im) == Region(im.data.offset, im.data.length)

(***************************************************************************)
(* C28: every active segment of the init module lies inside the env        *)
(* module's declared minimum sizes: the dlopen element segment             *)
(* [table_base, table_base + function_count) and the indirection element   *)
(* segment [indirection_table_base, indirection_table_base + length of the *)
(* indirection list) end at or below the table minimum, and the dlopen     *)
(* data segment [memory_base, memory_base + buffer length) ends at or      *)
(* below memory minimum pages * 65536.                                     *)
(***************************************************************************)
C28_SegmentsInBounds ==
    result = "component" =>
        /\ ElementRegion(init_module, 1)
             = Region(layout.dl_openables.table_base, layout.dl_openables.function_count)
        /\ ElementRegion(init_module, 2)
             = Region(layout.indirection_table_base, Len(function_exports))
        /\ DataRegion(init_module)
             = Region(layout.dl_openables.memory_base, BufferLen(layout.dl_openables.buffer))
        /\ EndsBy(ElementRegion(init_module, 1), layout.table_minimum)
        /\ EndsBy(ElementRegion(init_module, 2), layout.table_minimum)
        /\ EndsBy(DataRegion(init_module), layout.memory_minimum * PAGE_SIZE_BYTES)

\* The pass running is the one a pruning restart started, and it has
\* resolved its symbols.
AfterPrune ==
    /\ AfterResolve
    /\ Len(restarts) > 0
    /\ restarts[Len(restarts)] = "prune"

(***************************************************************************)
(* C29: a pruning restart never breaks symbol resolution: the pass that    *)
(* removed the unreachable libraries had empty missing and duplicates      *)
(* sets, and the restarted pass again has an empty missing set; no library *)
(* that is the sole exporter of a GOT.mem, GOT.func or env import of a     *)
(* retained library is pruned.                                             *)
(***************************************************************************)
C29_PruneKeepsResolution ==
    AfterPrune => Len(missing) = 0

====
